---- MODULE Spec2Model ----
(***************************************************************************)
(* A model of the gengar compiler front end: the lexer (src/src/lexer.ts,  *)
(* the token table of src/unnamed/part_002) and the recursive-descent      *)
(* parser (src/src/parser.ts, the revision at lines 304-992).              *)
(*                                                                         *)
(* Source text is a sequence of one-character strings.  The lexer object   *)
(* is the record `lexer`; every method of GengarLexer that always returns  *)
(* is an operator from a lexer record to an outcome (the lexer after the   *)
(* call, what the call returned, whether it threw).  SkipTo and the parser *)
(* functions, which may fail to return, run step by step on `stack`.       *)
(***************************************************************************)
EXTENDS Integers, Sequences, FiniteSets, TLC

VARIABLES
  lexer,     \* the GengarLexer object: line, col, pos, source, originSource, savePoint, CurrentToken
  stack,     \* the activation records of the calls in progress, innermost last
  status,    \* "client": a caller drives the lexer API; "running" | "returned" | "raised": Parse
  ret,       \* the value returned by the call that ended last, or the error thrown
  lastCall,  \* history: the last lexer call made by the API client
  atSave     \* history: the lexer as it was when the client last called Save

vars == <<lexer, stack, status, ret, lastCall, atSave>>

-----------------------------------------------------------------------------
(* Bounds of the model *)

\* longest source text the API client's lexer is constructed with
MaxSourceLen == 2
\* largest offset the API client passes to Skip
MaxOffset == 2
\* EOF tokens SkipTo records in skippedTokens; a further EOF token pushed at
\* the end of input is not recorded (the list is never returned by then)
MaxEofSkipped == 1

-----------------------------------------------------------------------------
(* Characters *)

Digit == {"0", "1", "2", "3", "4", "5", "6", "7", "8", "9"}

Letter ==
  {"a", "b", "c", "d", "e", "f", "g", "h", "i", "j", "k", "l", "m",
   "n", "o", "p", "q", "r", "s", "t", "u", "v", "w", "x", "y", "z",
   "A", "B", "C", "D", "E", "F", "G", "H", "I", "J", "K", "L", "M",
   "N", "O", "P", "Q", "R", "S", "T", "U", "V", "W", "X", "Y", "Z"}

\* the regular expression class \w
WordChar == Letter \cup Digit \cup {"_"}

\* the regular expression class \s (the characters of it a source can be written with here)
SpaceChar == {" ", "\t", "\n", "\r", "\f"}

OperatorChar == {"+", "-", "*", "/"}

\* the words the token table spells out
kwIf == <<"i", "f">>
kwElse == <<"e", "l", "s", "e">>
kwWhile == <<"w", "h", "i", "l", "e">>
kwReturn == <<"r", "e", "t", "u", "r", "n">>
kwDebugger == <<"d", "e", "b", "u", "g", "g", "e", "r">>
kwConst == <<"c", "o", "n", "s", "t">>
kwMut == <<"m", "u", "t">>
wTrue == <<"t", "r", "u", "e">>
wFalse == <<"f", "a", "l", "s", "e">>
wString == <<"s", "t", "r", "i", "n", "g">>
wNumber == <<"n", "u", "m", "b", "e", "r">>
wBoolean == <<"b", "o", "o", "l", "e", "a", "n">>

-----------------------------------------------------------------------------
(* Regular expressions of the token table, each anchored at the start of s. *)
(* A matcher gives the length of the text its group 1 captures, 0 when the *)
(* pattern does not match (no pattern of the table matches the empty text).*)

\* the element of a one-element set.  Only({e(v) : v \in {x}}) is e(x), with
\* x computed once for all the places e uses it at
Only(S) == CHOOSE x \in S : TRUE

Drop(s, n) == SubSeq(s, n + 1, Len(s))

StartsWith(s, w) == Len(s) >= Len(w) /\ SubSeq(s, 1, Len(w)) = w

\* length of the longest prefix of s made of characters of C (a greedy C*)
RunLen(s, C) ==
  CHOOSE n \in 0..Len(s) :
    /\ \A i \in 1..n : s[i] \in C
    /\ n = Len(s) \/ s[n + 1] \notin C

\* first alternative of words (in order) that s starts with: its length, else 0
MatchWords(s, words) ==
  IF \E i \in 1..Len(words) : StartsWith(s, words[i])
  THEN Len(words[CHOOSE i \in 1..Len(words) :
                   /\ StartsWith(s, words[i])
                   /\ \A j \in 1..(i - 1) : ~StartsWith(s, words[j])])
  ELSE 0

\* a prefix of n characters followed by a match of m more: n + m, or 0 when m is 0
Then(n, m) == IF m > 0 THEN n + m ELSE 0

MatchChar(s, c) == IF Len(s) >= 1 /\ s[1] = c THEN 1 ELSE 0

\* Keywords: /^(if|else|while|return|debugger|const|mut)/
MatchKeywords(s) ==
  MatchWords(s, <<kwIf, kwElse, kwWhile, kwReturn, kwDebugger, kwConst, kwMut>>)

\* ID: /^(\w+)/
MatchID(s) == RunLen(s, WordChar)

\* StringLiteral: /^("[^"]*")/
MatchStringLiteral(s) ==
  IF Len(s) >= 1 /\ s[1] = "\"" /\ \E i \in 2..Len(s) : s[i] = "\""
  THEN CHOOSE i \in 2..Len(s) : s[i] = "\"" /\ \A j \in 2..(i - 1) : s[j] # "\""
  ELSE 0

\* NumberLiteral: /^(\d+)/
MatchNumberLiteral(s) == RunLen(s, Digit)

\* BoolLiteral: /^(true|false)/
MatchBoolLiteral(s) == MatchWords(s, <<wTrue, wFalse>>)

\* WhiteSpace: /^(\s+)/
MatchWhiteSpace(s) == RunLen(s, SpaceChar)

\* CRLF: /^(\r?\n+)/
OneOrMoreNewlines(s, cr) == Then(cr, RunLen(Drop(s, cr), {"\n"}))

MatchCRLF(s) == OneOrMoreNewlines(s, MatchChar(s, "\r"))

\* AssignOperator: /^((?:\+|-|\*|\/)*=)/
EqualsSign(s, ops) == Then(ops, MatchChar(Drop(s, ops), "="))

MatchAssignOperator(s) == EqualsSign(s, RunLen(s, OperatorChar))

\* BinaryOperator: /^(\+|-|\*|\/)/
MatchBinaryOperator(s) == IF Len(s) >= 1 /\ s[1] \in OperatorChar THEN 1 ELSE 0

\* TypeAssert: /^(:\s*(?:string|number|boolean))/
TypeName(s, ws) == Then(1 + ws, MatchWords(Drop(s, 1 + ws), <<wString, wNumber, wBoolean>>))

MatchTypeAssert(s) ==
  IF MatchChar(s, ":") = 1 THEN TypeName(s, RunLen(Drop(s, 1), SpaceChar)) ELSE 0

NoMatch == [Type |-> "none", len |-> 0]

\* the last entry of try that matched: the chain of GetToken tried from its end
LastOf(try) ==
  IF \E i \in 1..Len(try) : try[i].len > 0
  THEN try[CHOOSE i \in 1..Len(try) :
             /\ try[i].len > 0
             /\ \A j \in (i + 1)..Len(try) : try[j].len = 0]
  ELSE NoMatch

\* the first entry of try that matched
FirstOf(try) ==
  IF \E i \in 1..Len(try) : try[i].len > 0
  THEN try[CHOOSE i \in 1..Len(try) :
             /\ try[i].len > 0
             /\ \A j \in 1..(i - 1) : try[j].len = 0]
  ELSE NoMatch

\* the if / else-if chain of GetToken: the first pattern, in the order the
\* method tries them, that matches at the start of s
FirstMatch(s) ==
  Only({FirstOf(try) : try \in {
          << [Type |-> "LeftParenthesis", len |-> MatchChar(s, "(")],
             [Type |-> "RightParenthesis", len |-> MatchChar(s, ")")],
             [Type |-> "LeftBracket", len |-> MatchChar(s, "{")],
             [Type |-> "RightBracket", len |-> MatchChar(s, "}")],
             [Type |-> "CRLF", len |-> MatchCRLF(s)],
             [Type |-> "Keywords", len |-> MatchKeywords(s)],
             [Type |-> "WhiteSpace", len |-> MatchWhiteSpace(s)],
             [Type |-> "TypeAsset", len |-> MatchTypeAssert(s)],
             [Type |-> "AssignOperator", len |-> MatchAssignOperator(s)],
             [Type |-> "BinaryOperator", len |-> MatchBinaryOperator(s)],
             [Type |-> "StringLiteral", len |-> MatchStringLiteral(s)],
             [Type |-> "NumberLiteral", len |-> MatchNumberLiteral(s)],
             [Type |-> "BoolLiteral", len |-> MatchBoolLiteral(s)],
             [Type |-> "Semicolon", len |-> MatchChar(s, ";")],
             [Type |-> "Comma", len |-> MatchChar(s, ",")],
             [Type |-> "Dot", len |-> MatchChar(s, ".")],
             [Type |-> "ID", len |-> MatchID(s)] >>}})

-----------------------------------------------------------------------------
(* Tokens.  A Token is an object: `id` stands for its identity, which the  *)
(* parser's loops compare (prevToken !== this.lexer.CurrentToken).         *)

Token(type, val, line, col, id) ==
  [Type |-> type, Val |-> val, Line |-> line, Col |-> col, id |-> id]

\* the value `undefined` of a Token | undefined field
NoToken == Token("undefined", <<>>, 0, 0, <<0, 0>>)

\* the token references the code can still compare a new token with: the
\* lexer's current token, the saved one, and the prevToken of every loop
LiveIds(L) ==
  {L.CurrentToken.id, L.savePoint.token.id}
    \cup {stack[i].prevToken.id : i \in {j \in DOMAIN stack : "prevToken" \in DOMAIN stack[j]}}

\* the first serial number free at pos among the live tokens
FirstFree(pos, live) ==
  <<pos, CHOOSE n \in 1..(Cardinality(live) + 1) :
           /\ <<pos, n>> \notin live
           /\ \A m \in 1..(n - 1) : <<pos, m>> \in live>>

\* `new Token(...)`: an object distinct from every live one, named by the
\* position it is made at and the first serial number free among the live
\* tokens made there
FreshId(L) == Only({FirstFree(L.pos, live) : live \in {LiveIds(L)}})

-----------------------------------------------------------------------------
(* GengarLexer *)

\* the fields of a new GengarLexer(source)
NewLexer(source) ==
  [line |-> 1, col |-> 0, pos |-> 0,
   originSource |-> source,
   savePoint |-> [source |-> <<>>, line |-> 1, col |-> 0, pos |-> 0, token |-> NoToken],
   source |-> source,
   CurrentToken |-> NoToken]

\* what a call did: the lexer after it, the token / token list / boolean it
\* returned, and whether it threw instead of returning
Outcome(L, token, tokens, value, raised) ==
  [lexer |-> L, token |-> token, tokens |-> tokens, value |-> value, raised |-> raised]

\* a throw of GetToken that first steps over the character no pattern matches
ThrewAfterSkip(L) ==
  Outcome([L EXCEPT !.pos = @ + 1, !.col = @ + 1, !.source = SubSeq(@, 2, Len(@))],
          NoToken, <<>>, FALSE, TRUE)

Threw(L) == Outcome(L, NoToken, <<>>, FALSE, TRUE)

Returned(L) == Outcome(L, NoToken, <<>>, FALSE, FALSE)

\* GetToken at the end of input without `this.CurrentToken = t`
EndOfInputKeepsToken(L, t) == Outcome(L, t, <<>>, FALSE, FALSE)

\* GetToken at the end of input: the EOF token t becomes the current token
EndOfInput(L, t) == Outcome([L EXCEPT !.CurrentToken = t], t, <<>>, FALSE, FALSE)

\* the end of GetToken without the column reset after a CRLF token
AdvanceKeepsCol(L, t) ==
  IF t.Type = "CRLF"
  THEN Outcome([L EXCEPT !.CurrentToken = t,
                         !.pos = @ + Len(t.Val),
                         !.col = @ + Len(t.Val),
                         !.source = Drop(@, Len(t.Val)),
                         !.line = @ + Len(t.Val)],
               t, <<>>, FALSE, FALSE)
  ELSE Outcome([L EXCEPT !.CurrentToken = t,
                         !.pos = @ + Len(t.Val),
                         !.col = @ + Len(t.Val),
                         !.source = Drop(@, Len(t.Val))],
               t, <<>>, FALSE, FALSE)

\* the end of GetToken with one character more than the match taken off the
\* remaining source
AdvanceDropsOneMore(L, t) ==
  IF t.Type = "CRLF"
  THEN Outcome([L EXCEPT !.CurrentToken = t,
                         !.pos = @ + Len(t.Val),
                         !.source = Drop(@, Len(t.Val) + 1),
                         !.line = @ + Len(t.Val),
                         !.col = 0],
               t, <<>>, FALSE, FALSE)
  ELSE Outcome([L EXCEPT !.CurrentToken = t,
                         !.pos = @ + Len(t.Val),
                         !.col = @ + Len(t.Val),
                         !.source = Drop(@, Len(t.Val) + 1)],
               t, <<>>, FALSE, FALSE)

\* the end of GetToken: t, whose Val is the matched text, becomes the current
\* token and the lexer moves past it
Advance(L, t) ==
  IF t.Type = "CRLF"
  THEN Outcome([L EXCEPT !.CurrentToken = t,
                         !.pos = @ + Len(t.Val),
                         !.source = Drop(@, Len(t.Val)),
                         !.line = @ + Len(t.Val),
                         !.col = 0],
               t, <<>>, FALSE, FALSE)
  ELSE Outcome([L EXCEPT !.CurrentToken = t,
                         !.pos = @ + Len(t.Val),
                         !.col = @ + Len(t.Val),
                         !.source = Drop(@, Len(t.Val))],
               t, <<>>, FALSE, FALSE)

\* GetToken with input left, m the pattern that matched (or none)
Matched(L, m) ==
  IF m = NoMatch
  THEN Threw(L)
  ELSE Only({Advance(L, t) :
               t \in {Token(m.Type, SubSeq(L.source, 1, m.len), L.line, L.col, FreshId(L))}})

GetToken(L) ==
  IF Len(L.source) = 0
  THEN Only({EndOfInput(L, t) : t \in {Token("EOF", <<>>, 0, 0, FreshId(L))}})
  ELSE Only({Matched(L, m) : m \in {FirstMatch(L.source)}})

\* the restores of Peek without `this.CurrentToken = token`
PeekRestoreKeepsToken(L, r) ==
  IF r.raised
  THEN r
  ELSE Outcome([r.lexer EXCEPT !.pos = L.pos,
                               !.line = L.line,
                               !.col = L.col,
                               !.source = L.source],
               r.token, <<>>, FALSE, FALSE)

\* the restores of Peek without `this.col = col`
PeekRestoreKeepsCol(L, r) ==
  IF r.raised
  THEN r
  ELSE Outcome([r.lexer EXCEPT !.pos = L.pos,
                               !.line = L.line,
                               !.source = L.source,
                               !.CurrentToken = L.CurrentToken],
               r.token, <<>>, FALSE, FALSE)

\* Peek after its GetToken call ended as r: the fields copied from L, the
\* lexer before the call, are put back (not when GetToken threw)
PeekRestore(L, r) ==
  IF r.raised
  THEN r
  ELSE Outcome([r.lexer EXCEPT !.pos = L.pos,
                               !.line = L.line,
                               !.col = L.col,
                               !.source = L.source,
                               !.CurrentToken = L.CurrentToken],
               r.token, <<>>, FALSE, FALSE)

Peek(L) == Only({PeekRestore(L, r) : r \in {GetToken(L)}})

\* Expect after its GetToken or Peek call ended as r
ExpectResult(r, tokenType) ==
  IF r.raised THEN r
  ELSE Outcome(r.lexer, NoToken, <<>>, r.token.Type = tokenType, FALSE)

Expect(L, tokenType, move) ==
  Only({ExpectResult(r, tokenType) : r \in {IF move THEN GetToken(L) ELSE Peek(L)}})

RECURSIVE Skip(_, _)
\* Skip after a GetToken call of its loop ended as r
SkipNext(r, offset) == IF r.raised THEN r ELSE Skip(r.lexer, offset - 1)

Skip(L, offset) ==
  IF offset = 0 THEN Returned(L) ELSE Only({SkipNext(r, offset) : r \in {GetToken(L)}})

RECURSIVE SkipOfLoop(_, _, _, _)
\* SkipOf after a GetToken call ended as r
SkipOfNext(r, tokenTypes, skippedTokens) ==
  IF r.raised THEN r
  ELSE SkipOfLoop(r.lexer, tokenTypes, r.token, skippedTokens)

\* the while loop of SkipOf, entered with curToken and skippedTokens
SkipOfLoop(L, tokenTypes, curToken, skippedTokens) ==
  IF curToken.Type \in tokenTypes
  THEN Only({SkipOfNext(r, tokenTypes, Append(skippedTokens, curToken)) : r \in {GetToken(L)}})
  ELSE Outcome(L, NoToken, skippedTokens, FALSE, FALSE)

\* SkipOf is called with kinds that do not include EOF (every call of the
\* repository passes WhiteSpace, AssignOperator or Marks)
SkipOf(L, tokenTypes, fromCurrent) ==
  IF fromCurrent
  THEN SkipOfLoop(L, tokenTypes, L.CurrentToken, <<>>)
  ELSE Only({SkipOfNext(r, tokenTypes, <<>>) : r \in {GetToken(L)}})

RECURSIVE SkipToValueOfLoop(_, _, _, _, _)
\* SkipToValueOf after a GetToken call ended as r
SkipToValueOfNext(r, tokenType, val, skippedTokens) ==
  IF r.raised THEN r
  ELSE SkipToValueOfLoop(r.lexer, tokenType, val, r.token, skippedTokens)

\* the while loop of SkipToValueOf
SkipToValueOfLoop(L, tokenType, val, curToken, skippedTokens) ==
  IF curToken.Type # "EOF" /\ (curToken.Type # tokenType \/ curToken.Val # val)
  THEN Only({SkipToValueOfNext(r, tokenType, val, Append(skippedTokens, curToken)) :
               r \in {GetToken(L)}})
  ELSE Outcome(L, NoToken, skippedTokens, FALSE, FALSE)

SkipToValueOf(L, tokenType, val) ==
  Only({SkipToValueOfNext(r, tokenType, val, <<>>) : r \in {GetToken(L)}})

Save(L) ==
  [L EXCEPT !.savePoint = [pos |-> L.pos,
                           line |-> L.line,
                           col |-> L.col,
                           source |-> L.source,
                           token |-> L.CurrentToken]]

\* BackTracking without `this.CurrentToken = this.savePoint.token`
BackTrackingKeepsToken(L) ==
  [L EXCEPT !.line = L.savePoint.line,
            !.col = L.savePoint.col,
            !.pos = L.savePoint.pos,
            !.source = L.savePoint.source]

BackTracking(L) ==
  [L EXCEPT !.line = L.savePoint.line,
            !.col = L.savePoint.col,
            !.pos = L.savePoint.pos,
            !.source = L.savePoint.source,
            !.CurrentToken = L.savePoint.token]

-----------------------------------------------------------------------------
(* Calls in progress *)

Top == stack[Len(stack)]

Pop == SubSeq(stack, 1, Len(stack) - 1)

ReplaceTop(f) == [stack EXCEPT ![Len(stack)] = f]

\* ret before any call has ended
Nothing == [nothing |-> TRUE]

\* the innermost call returns to its caller; v is [node |-> the AST node],
\* [nodes |-> the list of nodes] or [tokens |-> the list of tokens] it returns
Return(v) ==
  /\ stack' = Pop
  /\ ret' = v
  /\ status' = IF Len(stack) = 1 /\ status = "running" THEN "returned" ELSE status

\* an exception: nothing in the repository catches one, every call in progress
\* ends and ret is [thrown |-> the error]
Throw(e) ==
  /\ stack' = <<>>
  /\ ret' = [thrown |-> e]
  /\ status' = IF status = "running" THEN "raised" ELSE status

\* thrown by GetToken when no pattern matches
LexError(L) == [error |-> "unknow token", pos |-> L.pos, line |-> L.line, col |-> L.col,
                source |-> L.source]

-----------------------------------------------------------------------------
(* History of the API client's calls *)

\* no error: the call returned
NoError == [error |-> "none", pos |-> 0, line |-> 0, col |-> 0, source |-> <<>>]

\* the call the client made last: which method, the token it returned (GetToken,
\* Peek), whether it threw and the error it threw (thrown where the lexer
\* stood then); for GetToken, the token of the Peek that came
\* right before it; for BackTracking, the calls made since the last Save
CallRecord(op, r) ==
  [op |-> op, token |-> r.token, raised |-> r.raised,
   error |-> IF r.raised THEN LexError(r.lexer) ELSE NoError,
   afterPeek |-> op = "GetToken" /\ lastCall.op = "Peek" /\ ~lastCall.raised,
   peeked |-> IF op = "GetToken" /\ lastCall.op = "Peek" /\ ~lastCall.raised
              THEN lastCall.token ELSE NoToken,
   since |-> IF op = "BackTracking" THEN atSave.since ELSE "n/a"]

\* the state of a lexer that Save and BackTracking are about
Observable(L) ==
  [pos |-> L.pos, line |-> L.line, col |-> L.col, source |-> L.source,
   CurrentToken |-> L.CurrentToken]

\* the calls made since the last Save: GetToken, Peek and Skip only, or others too
Pure == [atSave EXCEPT !.since = IF @ \in {"no call", "GetToken, Peek, Skip"}
                                 THEN "GetToken, Peek, Skip" ELSE @]

Mixed == [atSave EXCEPT !.since = IF @ = "never saved" THEN @ ELSE "other calls"]

-----------------------------------------------------------------------------
(* GengarLexer.SkipTo, one GetToken call a step *)

SkipToFrame(tokenTypes) ==
  [fn |-> "SkipTo", pc |-> "enter", tokenTypes |-> tokenTypes,
   skippedTokens |-> <<>>, curToken |-> NoToken]

EofCount(tokens) == Cardinality({i \in DOMAIN tokens : tokens[i].Type = "EOF"})

\* skippedTokens.push(curToken)
PushSkipped(skippedTokens, curToken) ==
  IF curToken.Type = "EOF" /\ EofCount(skippedTokens) >= MaxEofSkipped
  THEN skippedTokens
  ELSE Append(skippedTokens, curToken)

\* SkipTo goes on: its GetToken call ended as r, skippedTokens is now skipped
SkipToNext(f, r, skipped) ==
  /\ lexer' = r.lexer
  /\ IF r.raised
     THEN Throw(LexError(lexer))
     ELSE /\ stack' = ReplaceTop([f EXCEPT !.pc = "loop", !.curToken = r.token,
                                           !.skippedTokens = skipped])
          /\ UNCHANGED <<status, ret>>
  /\ lastCall' = IF status = "client" THEN CallRecord("SkipTo", r) ELSE lastCall

\* one step of the call f
SkipToStep(f) ==
  IF f.pc = "enter"
  THEN \* let curToken = this.GetToken();
       \E r \in {GetToken(lexer)} : SkipToNext(f, r, f.skippedTokens)
  ELSE IF f.curToken.Type \notin f.tokenTypes
       THEN \* skippedTokens.push(curToken); curToken = this.GetToken();
            \E r \in {GetToken(lexer)} :
              SkipToNext(f, r, PushSkipped(f.skippedTokens, f.curToken))
       ELSE \* return skippedTokens;
            /\ Return([tokens |-> f.skippedTokens])
            /\ lexer' = lexer
            /\ lastCall' = IF status = "client"
                           THEN CallRecord("SkipTo", Returned(lexer)) ELSE lastCall

SkipTo ==
  /\ status \in {"client", "running"}
  /\ stack # <<>>
  /\ Top.fn = "SkipTo"
  /\ SkipToStep(Top)
  /\ UNCHANGED atSave

-----------------------------------------------------------------------------
(* The API client: any sequence of calls on a lexer over a short source *)

ClientAlphabet == {"\r", "\n", " ", "a", "(", "?"}

ClientSources == UNION {[1..n -> ClientAlphabet] : n \in 0..MaxSourceLen}

ExpectKinds == {"LeftParenthesis", "ID", "EOF"}

SkipOfKinds == {{"WhiteSpace"}, {"AssignOperator", "WhiteSpace"}, {"WhiteSpace", "Marks"}}

SkipToKinds == {{"LeftParenthesis"}, {"LeftBracket"}, {"ID", "CRLF"}, {"EOF", "WhiteSpace"}}

SkipToValues == {<<"ID", <<"a">>>>, <<"WhiteSpace", <<" ">>>>}

Idle == status = "client" /\ stack = <<>>

\* a call that ends within the step: the lexer after it and the history
Called(op, r, save) ==
  /\ lexer' = r.lexer
  /\ lastCall' = CallRecord(op, r)
  /\ atSave' = save
  /\ UNCHANGED <<stack, status, ret>>

CallGetToken ==
  /\ Idle
  /\ \E r \in {GetToken(lexer)} : Called("GetToken", r, Pure)

CallPeek ==
  /\ Idle
  /\ \E r \in {Peek(lexer)} : Called("Peek", r, Pure)

CallExpect ==
  /\ Idle
  /\ \E tokenType \in ExpectKinds, move \in BOOLEAN :
       \E r \in {Expect(lexer, tokenType, move)} : Called("Expect", r, Mixed)

CallSkip ==
  /\ Idle
  /\ \E offset \in 1..MaxOffset :
       \E r \in {Skip(lexer, offset)} : Called("Skip", r, Pure)

CallSkipOf ==
  /\ Idle
  /\ \E tokenTypes \in SkipOfKinds, fromCurrent \in BOOLEAN :
       \E r \in {SkipOf(lexer, tokenTypes, fromCurrent)} : Called("SkipOf", r, Mixed)

CallSkipToValueOf ==
  /\ Idle
  /\ \E tv \in SkipToValues :
       \E r \in {SkipToValueOf(lexer, tv[1], tv[2])} : Called("SkipToValueOf", r, Mixed)

CallSkipTo ==
  /\ Idle
  /\ \E tokenTypes \in SkipToKinds :
       stack' = Append(stack, SkipToFrame(tokenTypes))
  /\ lastCall' = CallRecord("SkipTo", Returned(lexer))
  /\ atSave' = Mixed
  /\ UNCHANGED <<lexer, status, ret>>

CallSave ==
  /\ Idle
  /\ Called("Save", Returned(Save(lexer)),
            [since |-> "no call", state |-> Observable(lexer)])

CallBackTracking ==
  /\ Idle
  /\ Called("BackTracking", Returned(BackTracking(lexer)), Mixed)

Init ==
  /\ \E source \in ClientSources : lexer = NewLexer(source)
  /\ stack = <<>>
  /\ status = "client"
  /\ ret = Nothing
  /\ lastCall = [op |-> "new", token |-> NoToken, raised |-> FALSE, error |-> NoError,
                 afterPeek |-> FALSE, peeked |-> NoToken, since |-> "n/a"]
  /\ atSave = [since |-> "never saved", state |-> Observable(lexer)]

Next ==
  \/ CallGetToken
  \/ CallPeek
  \/ CallExpect
  \/ CallSkip
  \/ CallSkipOf
  \/ CallSkipTo
  \/ SkipTo
  \/ CallSkipToValueOf
  \/ CallSave
  \/ CallBackTracking

Spec == Init /\ [][Next]_vars

-----------------------------------------------------------------------------
(* GetToken and Peek on texts written with the words of the language: the   *)
(* keywords and words that begin with one, the operators, the marks, white  *)
(* space and line ends                                                      *)

\* texts are made of at most this many words
MaxLexWords == 2

LexWords ==
  {<<"i", "f">>, <<"i", "f", "f", "y">>, <<"m", "u", "t", "e", "x">>,
   <<"c", "o", "n", "s", "t">>, <<"x">>, <<"_", "1">>, <<"7">>, <<"t", "r", "u", "e">>,
   <<" ">>, <<"\t">>, <<"\n">>, <<"\r">>, <<"+">>, <<"=">>, <<"-", "=">>, <<":">>,
   <<"s", "t", "r", "i", "n", "g">>, <<":", " ", "b", "o", "o", "l", "e", "a", "n">>,
   <<"?">>, <<"!">>, <<"~">>, <<"(">>, <<"}">>, <<".">>, <<";">>, <<",">>,
   <<"\"", "s", "\"">>, <<" ", "\n">>, <<"\r", "\n">>}

RECURSIVE Texts(_)
\* the texts made of at most n words
Texts(n) ==
  IF n = 0 THEN {<<>>}
  ELSE UNION {{t, t \o w} : t \in Texts(n - 1), w \in LexWords}

LexSources == Texts(MaxLexWords)

LexInit ==
  /\ \E source \in LexSources : lexer = NewLexer(source)
  /\ stack = <<>>
  /\ status = "client"
  /\ ret = Nothing
  /\ lastCall = [op |-> "new", token |-> NoToken, raised |-> FALSE, error |-> NoError,
                 afterPeek |-> FALSE, peeked |-> NoToken, since |-> "n/a"]
  /\ atSave = [since |-> "never saved", state |-> Observable(lexer)]

LexNext ==
  \/ CallGetToken
  \/ CallPeek

LexSpec == LexInit /\ [][LexNext]_vars

-----------------------------------------------------------------------------
(* AST nodes (src/src/ast.ts).  `class` is the constructor, Type the        *)
(* NodeType the constructor hands to ASTNode.                               *)

\* the file name GengarCompiler passes to the parser
SourceFile == "hello.gengar"

\* the value null / undefined of a node slot
Null == [class |-> "null"]

ASTNode(class, type, line, col) ==
  [class |-> class, Type |-> type, Line |-> line, Col |-> col, File |-> SourceFile]

Program(body, line, col) == ASTNode("Program", "Program", line, col) @@ [Body |-> body]

MainDeclare(body, line, col) ==
  ASTNode("MainDeclare", "MainDeclare", line, col) @@ [Body |-> body]

FunctionDeclare(id, params, body, line, col) ==
  ASTNode("FunctionDeclare", "FunctionDeclare", line, col)
    @@ [Id |-> id, Params |-> params, Body |-> body]

BlockStatement(body) == ASTNode("BlockStatement", "BlockStatement", 1, 0) @@ [Body |-> body]

ExpressionStatement(expression) ==
  ASTNode("ExpressionStatement", "ExpressionStatement", expression.Line, expression.Col)
    @@ [Expression |-> expression]

VarDeclare(kind, id, init, line, col) ==
  ASTNode("VarDeclare", "VarDeclare", line, col) @@ [Kind |-> kind, Id |-> id, Init |-> init]

IfStatement(line, col, test, consequent, alternate) ==
  ASTNode("IfStatement", "VarDeclare", line, col)
    @@ [Test |-> test, Consequent |-> consequent, Alternate |-> alternate]

WhileStatement(line, col, test, body) ==
  ASTNode("WhileStatement", "WhileStatement", line, col) @@ [Test |-> test, Body |-> body]

ReturnStatement(argument, line, col) ==
  ASTNode("ReturnStatement", "ReturnStatement", line, col) @@ [Argument |-> argument]

DebuggerNode(val, line, col) ==
  ASTNode("DebuggerNode", "DebuggerStatement", line, col) @@ [Val |-> val]

AssignExpression(id, init, operator, line, col) ==
  ASTNode("AssignExpression", "CallExpression", line, col)
    @@ [Id |-> id, Init |-> init, Operator |-> operator]

\* a BinaryExpression with its two sides the other way round
BinaryExpressionSwapped(left, right, operator, line, col) ==
  ASTNode("BinaryExpression", "CallExpression", line, col)
    @@ [Left |-> right, Right |-> left, Operator |-> operator]

BinaryExpression(left, right, operator, line, col) ==
  ASTNode("BinaryExpression", "CallExpression", line, col)
    @@ [Left |-> left, Right |-> right, Operator |-> operator]

CallExpression(id, args, line, col) ==
  ASTNode("CallExpression", "CallExpression", line, col) @@ [Id |-> id, Args |-> args]

Identifier(name, line, col) == ASTNode("Identifier", "Identifier", line, col) @@ [Name |-> name]

MemberExpression(object, property, line, col) ==
  ASTNode("MemberExpression", "MemberExpression", line, col)
    @@ [Object |-> object, Property |-> property]

StringLiteral(val, line, col) ==
  ASTNode("StringLiteral", "StringLiteral", line, col) @@ [Val |-> val]

NumberLiteral(val, line, col) ==
  ASTNode("NumberLiteral", "NumberLiteral", line, col) @@ [Val |-> val]

BooleanLiteral(val, line, col) ==
  ASTNode("BooleanLiteral", "BoolLiteral", line, col) @@ [Val |-> val]

\* new Identifier(token.Val, token.Line, token.Col, this.sourceFile)
IdentifierOf(token) == Identifier(token.Val, token.Line, token.Col)

-----------------------------------------------------------------------------
(* Generate (src/src/ast.ts): the text a node emits, the chunks of its      *)
(* SourceNode in order, or the exception it throws                          *)

Emitted(code) == [raised |-> FALSE, code |-> code]

\* Generate threw: the UnexpectedTokenError of BinaryExpression, or the
\* TypeError of a call of Generate on null
EmitRaised == [raised |-> TRUE, code |-> <<>>]

RECURSIVE Concat(_)
Concat(codes) == IF codes = <<>> THEN <<>> ELSE Head(codes) \o Concat(Tail(codes))

\* this.CreateSourceNode().add(...).add(...): the chunks in the order they
\* are added; an exception thrown while a chunk is made ends Generate
Add(chunks) ==
  Only({IF \E i \in DOMAIN parts : parts[i].raised
        THEN EmitRaised
        ELSE Emitted(Concat([i \in DOMAIN parts |-> parts[i].code])) :
          parts \in {chunks}})

\* the chunks with "," between them (the reduce of CallExpression.Generate)
Interleaved(chunks) ==
  [i \in 1..(2 * Len(chunks) - 1) |->
     IF i % 2 = 1 THEN chunks[(i + 1) \div 2] ELSE Emitted(<<",">>)]

\* a print function written on one line
PrintFunctionOneLine ==
  <<"f", "u", "n", "c", "t", "i", "o", "n", " ", "p", "r", "i", "n", "t", "(", ".", ".",
    ".", "a", "r", "g", "s", ")", "{", "c", "o", "n", "s", "o", "l", "e", ".", "l", "o",
    "g", "(", ".", ".", ".", "a", "r", "g", "s", ")", ";", "}">>

PrintFunction ==
  <<"f", "u", "n", "c", "t", "i", "o", "n", " ", "p", "r", "i", "n", "t", "(", ".", ".",
    ".", "a", "r", "g", "s", ")", "{", "\n", " ", " ", "c", "o", "n", "s", "o", "l", "e",
    ".", "l", "o", "g", "(", ".", ".", ".", "a", "r", "g", "s", ")", ";", "\n", "}", "\n">>

\* a VarDeclare that emits const whatever its Kind
DeclareKeywordConst(kind) == <<"c", "o", "n", "s", "t", " ">>

\* VarDeclare.Generate: this.Kind === "mut" ? "let " : "const "
DeclareKeyword(kind) ==
  IF kind = kwMut THEN <<"l", "e", "t", " ">> ELSE <<"c", "o", "n", "s", "t", " ">>

RECURSIVE Generate(_)
\* nodes.map((n) => n.Generate())
GenerateEach(nodes) == [i \in DOMAIN nodes |-> Generate(nodes[i])]

Generate(node) ==
  CASE node.class = "null" -> EmitRaised
    [] node.class = "Program" ->
         Add(<<Emitted(PrintFunction), Add(GenerateEach(node.Body))>>)
    [] node.class = "MainDeclare" ->
         Add(<<Emitted(<<";", "(", "f", "u", "n", "c", "t", "i", "o", "n", "(", ")">>),
               Generate(node.Body),
               Emitted(<<")", "(", ")", ";", "\n">>)>>)
    [] node.class = "FunctionDeclare" ->
         Add(<<Emitted(<<"f", "u", "n", "c", "t", "i", "o", "n", " ">>),
               Generate(node.Id),
               Emitted(<<"(">>),
               Add(GenerateEach(node.Params)),
               Emitted(<<")", " ">>),
               Generate(node.Body)>>)
    [] node.class = "BlockStatement" ->
         Add(<<Emitted(<<"{", "\n">>), Add(GenerateEach(node.Body)), Emitted(<<"\n", "}">>)>>)
    [] node.class = "ExpressionStatement" ->
         Add(<<Generate(node.Expression), Emitted(<<";">>)>>)
    [] node.class = "VarDeclare" ->
         Add(<<Emitted(DeclareKeyword(node.Kind)),
               Generate(node.Id),
               Emitted(<<"=">>),
               Generate(node.Init),
               Emitted(<<";">>)>>)
    [] node.class = "IfStatement" ->
         Add(<<Emitted(<<"\n", "i", "f", "(">>),
               Generate(node.Test),
               Emitted(<<")">>),
               Generate(node.Consequent),
               IF node.Alternate # Null
               THEN Add(<<Emitted(<<"e", "l", "s", "e", " ">>), Generate(node.Alternate)>>)
               ELSE Emitted(<<>>)>>)
    [] node.class = "WhileStatement" ->
         Add(<<Emitted(<<"w", "h", "i", "l", "e", "(">>),
               Generate(node.Test),
               Emitted(<<")">>),
               Generate(node.Body)>>)
    [] node.class = "ReturnStatement" ->
         Add(<<Emitted(<<"\n", "r", "e", "t", "u", "r", "n", " ", "(">>),
               Generate(node.Argument),
               Emitted(<<")", ";">>)>>)
    [] node.class = "DebuggerNode" ->
         Add(<<Emitted(<<"\n">>), Emitted(node.Val), Emitted(<<";">>)>>)
    [] node.class = "AssignExpression" ->
         Add(<<Generate(node.Id),
               Emitted(<<" ">> \o node.Operator \o <<" ">>),
               Generate(node.Init)>>)
    [] node.class = "BinaryExpression" ->
         IF node.Left = Null
         THEN EmitRaised
         ELSE Add(<<Generate(node.Left),
                    Emitted(<<" ">> \o node.Operator \o <<" ">>),
                    Generate(node.Right)>>)
    [] node.class = "CallExpression" ->
         Add(<<Generate(node.Id),
               Emitted(<<"(">>),
               Add(Interleaved(GenerateEach(node.Args))),
               Emitted(<<")">>)>>)
    [] node.class = "MemberExpression" ->
         Add(<<Generate(node.Object), Emitted(<<".">>), Generate(node.Property)>>)
    [] node.class = "Identifier" -> Emitted(node.Name)
    [] node.class \in {"StringLiteral", "NumberLiteral", "BooleanLiteral"} -> Emitted(node.Val)

\* the nodes a node holds in its fields, in the order of the source text
Children(node) ==
  CASE node.class \in {"Program", "BlockStatement"} -> node.Body
    [] node.class = "MainDeclare" -> <<node.Body>>
    [] node.class = "FunctionDeclare" -> <<node.Id>> \o node.Params \o <<node.Body>>
    [] node.class = "ExpressionStatement" -> <<node.Expression>>
    [] node.class \in {"VarDeclare", "AssignExpression"} -> <<node.Id, node.Init>>
    [] node.class = "IfStatement" -> <<node.Test, node.Consequent, node.Alternate>>
    [] node.class = "WhileStatement" -> <<node.Test, node.Body>>
    [] node.class = "ReturnStatement" -> <<node.Argument>>
    [] node.class = "BinaryExpression" -> <<node.Left, node.Right>>
    [] node.class = "CallExpression" -> <<node.Id>> \o node.Args
    [] node.class = "MemberExpression" -> <<node.Object, node.Property>>
    [] OTHER -> <<>>

RECURSIVE Nodes(_)
\* every node of the tree under node, node first
NodesOfEach(nodes) == Concat([i \in DOMAIN nodes |-> Nodes(nodes[i])])

Nodes(node) == <<node>> \o NodesOfEach(Children(node))

-----------------------------------------------------------------------------
(* Errors the parser throws *)

UnexpectedTokenError(expect, actual) ==
  [error |-> "UnexpectedTokenError", expect |-> expect, actual |-> actual]

Error(message) == [error |-> message]

-----------------------------------------------------------------------------
(* GengarParser: the functions that always return, as operators on the     *)
(* lexer; the node they return is the outcome's value.                     *)

Value(L, node) == Outcome(L, NoToken, <<>>, node, FALSE)

\* a call that ended as o, unless an earlier one threw
GetTokenThen(ended) ==
  Only({IF o.raised THEN o ELSE GetToken(o.lexer) :
          o \in {ended}})

SkipThen(ended, offset) ==
  Only({IF o.raised THEN o ELSE Skip(o.lexer, offset) :
          o \in {ended}})

SkipOfThen(ended, tokenTypes, fromCurrent) ==
  Only({IF o.raised THEN o ELSE SkipOf(o.lexer, tokenTypes, fromCurrent) :
          o \in {ended}})

\* o, returning node instead of what it returned
ValueThen(ended, node) ==
  Only({IF o.raised THEN o ELSE Value(o.lexer, node) :
          o \in {ended}})

LiteralTypes == {"StringLiteral", "NumberLiteral", "BoolLiteral"}

\* the node ParseLiteralExpression makes of token (a token of a literal kind)
LiteralOf(token) ==
  CASE token.Type = "StringLiteral" -> StringLiteral(token.Val, token.Line, token.Col)
    [] token.Type = "NumberLiteral" -> NumberLiteral(token.Val, token.Line, token.Col)
    [] token.Type = "BoolLiteral" -> BooleanLiteral(token.Val, token.Line, token.Col)

\* called with a current token of a literal kind only
ParseLiteralExpression(L) == ValueThen(Skip(L, 1), LiteralOf(L.CurrentToken))

ParseIdentifierExpression(L) == ValueThen(Skip(L, 1), IdentifierOf(L.CurrentToken))

\* a ParseDebuggerStatement that steps over the keyword
ParseDebuggerStatementSkips(L) ==
  ValueThen(Skip(L, 1),
            DebuggerNode(L.CurrentToken.Val, L.CurrentToken.Line, L.CurrentToken.Col))

ParseDebuggerStatement(L) ==
  Value(L, DebuggerNode(L.CurrentToken.Val, L.CurrentToken.Line, L.CurrentToken.Col))

\* memberExps after the push of one iteration of ParseMemberExp; obj is what
\* was popped (Null: the array was empty)
MemberPush(obj, token) ==
  IF obj # Null
  THEN MemberExpression(obj, IdentifierOf(token), obj.Line, obj.Col)
  ELSE IdentifierOf(token)

\* an iteration of ParseMemberExp that calls Save() before it moves on
MemberAdvanceSaves(ended) ==
  Only({IF p.raised THEN p
        ELSE IF p.token.Type = "Dot"
             THEN GetTokenThen(Skip(Save(p.lexer), 1))
             ELSE GetToken(Save(p.lexer)) :
          p \in {ended}})

\* the end of an iteration: Skip() when a Dot is next, then GetToken(); p is
\* how the Peek() call ended
MemberAdvance(ended) ==
  Only({IF p.raised THEN p
        ELSE IF p.token.Type = "Dot"
             THEN GetTokenThen(Skip(p.lexer, 1))
             ELSE GetToken(p.lexer) :
          p \in {ended}})

RECURSIVE MemberLoop(_, _)
MemberNext(ended, top) ==
  Only({IF o.raised THEN o ELSE MemberLoop(o.lexer, top) :
          o \in {ended}})

\* the while loop of ParseMemberExp; top is the one element of memberExps, or Null
MemberLoop(L, top) ==
  IF L.CurrentToken.Type = "ID"
  THEN MemberNext(MemberAdvance(Peek(L)), MemberPush(top, L.CurrentToken))
  ELSE Value(L, top)

ParseMemberExp(L) == MemberLoop(L, Null)

-----------------------------------------------------------------------------
(* GengarParser: the functions that loop or call each other, one action    *)
(* each.  An action takes the call on top of the stack from where it is    *)
(* (pc) to its next call of such a function, to its return or to a throw.  *)

wMain == <<"m", "a", "i", "n">>
wFn == <<"f", "n">>

ExpressionStart == {"ID", "StringLiteral", "NumberLiteral", "BoolLiteral"}

\* the activation record of a call of fn made when the lexer is L, with the
\* locals the function initialises from the current token on entry
NewFrame(fn, L) ==
  CASE fn = "Parse" -> [fn |-> fn, pc |-> "start", body |-> <<>>, prevToken |-> NoToken]
    [] fn = "ParseMain" -> [fn |-> fn, pc |-> "start", startToken |-> L.CurrentToken]
    [] fn = "ParseFn" ->
         [fn |-> fn, pc |-> "start", token |-> L.CurrentToken,
          skippedIdTokens |-> <<>>, params |-> <<>>]
    [] fn = "ParseParams" -> [fn |-> fn, pc |-> "loop", args |-> <<>>]
    [] fn = "ParseBlockStatement" ->
         [fn |-> fn, pc |-> "loop", body |-> <<>>, prevToken |-> L.CurrentToken]
    [] fn = "ParseBinaryExpression" -> [fn |-> fn, pc |-> "start", operator |-> L.CurrentToken,
                                        right |-> Null]
    [] fn = "ParseValDeclareStatement" ->
         [fn |-> fn, pc |-> "start", kind |-> L.CurrentToken.Val, id |-> Null]
    [] fn = "ParseIfStatement" ->
         [fn |-> fn, pc |-> "start", test |-> Null, consequent |-> Null]
    [] fn = "ParseWhileStatement" -> [fn |-> fn, pc |-> "start", test |-> Null]
    [] fn = "ParseAssignExpression" ->
         [fn |-> fn, pc |-> "start", id |-> L.CurrentToken, operator |-> NoToken]
    [] fn = "ParseCallExp" ->
         [fn |-> fn, pc |-> "loop", line |-> L.CurrentToken.Line, col |-> L.CurrentToken.Col,
          id |-> Null, args |-> <<>>, prevToken |-> L.CurrentToken]
    [] fn = "ParseExpression" -> [fn |-> fn, pc |-> "start", nonRecursive |-> Null]
    [] OTHER -> [fn |-> fn, pc |-> "start"]

At(f, pc) == [f EXCEPT !.pc = pc]

Running(fn) == status = "running" /\ stack # <<>> /\ Top.fn = fn

\* the lexer calls of the step ended as o; the call on top goes on as f
Step(ended, f) ==
  \E o \in {ended} :
    /\ lexer' = o.lexer
    /\ IF o.raised
       THEN Throw(LexError(o.lexer))
       ELSE stack' = ReplaceTop(f) /\ UNCHANGED <<status, ret>>

\* ... and calls the parser function fn
Enter(ended, f, fn) ==
  \E o \in {ended} :
    /\ lexer' = o.lexer
    /\ IF o.raised
       THEN Throw(LexError(o.lexer))
       ELSE stack' = Append(ReplaceTop(f), NewFrame(fn, o.lexer)) /\ UNCHANGED <<status, ret>>

\* ... and calls this.lexer.SkipTo(tokenTypes)
EnterSkipTo(ended, f, tokenTypes) ==
  \E o \in {ended} :
    /\ lexer' = o.lexer
    /\ IF o.raised
       THEN Throw(LexError(o.lexer))
       ELSE stack' = Append(ReplaceTop(f), SkipToFrame(tokenTypes)) /\ UNCHANGED <<status, ret>>

\* ... and returns o.value
Finish(ended) ==
  \E o \in {ended} :
    /\ lexer' = o.lexer
    /\ IF o.raised THEN Throw(LexError(o.lexer)) ELSE Return([node |-> o.value])

\* ... and throws e
Raise(ended, e) ==
  \E o \in {ended} :
    /\ lexer' = o.lexer
    /\ Throw(IF o.raised THEN LexError(o.lexer) ELSE e)

\* prevToken = this.lexer.GetToken(), which ended as o
LoopAdvance(f, ended) ==
  \E o \in {ended} :
    Step(o, [f EXCEPT !.pc = "loop", !.prevToken = o.token])

\* a guard that takes the next token at the end of every iteration
LoopGuardAlwaysAdvances(f, L) == LoopAdvance(f, GetToken(L))

\* the end of an iteration of the loops of Parse, ParseBlockStatement and
\* ParseCallExp: go round again if the current token is another object than
\* prevToken, else take the next token first
LoopGuard(f, L) ==
  IF f.prevToken # L.CurrentToken
  THEN Step(Returned(L), [f EXCEPT !.pc = "loop", !.prevToken = L.CurrentToken])
  ELSE LoopAdvance(f, GetToken(L))

ParseFnCheck(f) ==
  IF lexer.CurrentToken.Type = "ID" /\ lexer.CurrentToken.Val = wFn
  THEN Enter(Returned(lexer), At(f, "fn"), "ParseFn")
  ELSE LoopGuard(f, lexer)

ParseMainCheck(f) ==
  IF lexer.CurrentToken.Type = "ID" /\ lexer.CurrentToken.Val = wMain
  THEN Enter(Returned(lexer), At(f, "main"), "ParseMain")
  ELSE ParseFnCheck(f)

ParseStep(f) ==
  CASE f.pc = "start" -> LoopAdvance(f, GetToken(lexer))
    [] f.pc = "loop" ->
         IF lexer.CurrentToken.Type = "EOF"
         THEN Finish(Value(lexer, Program(f.body, 1, 0)))
         ELSE ParseMainCheck(f)
    [] f.pc = "main" -> ParseFnCheck([f EXCEPT !.body = Append(@, ret.node)])
    [] f.pc = "fn" -> LoopGuard([f EXCEPT !.body = Append(@, ret.node)], lexer)

Parse ==
  /\ Running("Parse")
  /\ ParseStep(Top)
  /\ UNCHANGED <<lastCall, atSave>>

ParseMainStep(f) ==
  CASE f.pc = "start" -> EnterSkipTo(Returned(lexer), At(f, "bracket"), {"LeftBracket"})
    [] f.pc = "bracket" -> Enter(Returned(lexer), At(f, "body"), "ParseBlockStatement")
    [] f.pc = "body" ->
         Finish(Value(lexer, MainDeclare(ret.node, f.startToken.Line, f.startToken.Col)))

ParseMain ==
  /\ Running("ParseMain")
  /\ ParseMainStep(Top)
  /\ UNCHANGED <<lastCall, atSave>>

\* tokens.find((t) => t.Type === type), NoToken for undefined
Find(tokens, type) ==
  IF \E i \in DOMAIN tokens : tokens[i].Type = type
  THEN tokens[CHOOSE i \in DOMAIN tokens :
                /\ tokens[i].Type = type
                /\ \A j \in 1..(i - 1) : tokens[j].Type # type]
  ELSE NoToken

\* the end of ParseFn, idToken found or not
ParseFnEnd(f, idToken) ==
  IF idToken = NoToken
  THEN Raise(Returned(lexer), Error("unexpected fn identitifer"))
  ELSE Finish(Value(lexer, FunctionDeclare(IdentifierOf(idToken), f.params, ret.node,
                                           f.token.Line, f.token.Col)))

ParseFnStep(f) ==
  CASE f.pc = "start" -> EnterSkipTo(Returned(lexer), At(f, "params"), {"LeftParenthesis"})
    [] f.pc = "params" ->
         Enter(Returned(lexer), [f EXCEPT !.pc = "bracket", !.skippedIdTokens = ret.tokens],
               "ParseParams")
    [] f.pc = "bracket" ->
         EnterSkipTo(Returned(lexer), [f EXCEPT !.pc = "block", !.params = ret.nodes],
                     {"LeftBracket"})
    [] f.pc = "block" -> Enter(Returned(lexer), At(f, "body"), "ParseBlockStatement")
    [] f.pc = "body" -> ParseFnEnd(f, Find(f.skippedIdTokens, "ID"))

ParseFn ==
  /\ Running("ParseFn")
  /\ ParseFnStep(Top)
  /\ UNCHANGED <<lastCall, atSave>>

\* one test of the loop condition of ParseParams, and one iteration
ParseParamsStep(f) ==
  IF lexer.CurrentToken.Type = "RightParenthesis"
  THEN lexer' = lexer /\ Return([nodes |-> f.args])
  ELSE Step(GetToken(lexer),
            IF lexer.CurrentToken.Type = "ID"
            THEN [f EXCEPT !.args = Append(@, IdentifierOf(lexer.CurrentToken))]
            ELSE f)

ParseParams ==
  /\ Running("ParseParams")
  /\ ParseParamsStep(Top)
  /\ UNCHANGED <<lastCall, atSave>>

ParseBlockStatementStep(f) ==
  CASE f.pc = "loop" ->
         IF lexer.CurrentToken.Type = "RightBracket"
         THEN Finish(ValueThen(Skip(lexer, 1), BlockStatement(f.body)))
         ELSE IF lexer.CurrentToken.Type = "Keywords"
              THEN Enter(Returned(lexer), At(f, "statement"), "ParseStatement")
              ELSE IF lexer.CurrentToken.Type \in ExpressionStart
                   THEN Enter(Returned(lexer), At(f, "expression"), "ParseExpression")
                   ELSE LoopGuard(f, lexer)
    [] f.pc = "statement" -> LoopGuard([f EXCEPT !.body = Append(@, ret.node)], lexer)
    [] f.pc = "expression" ->
         LoopGuard([f EXCEPT !.body = Append(@, ExpressionStatement(ret.node))], lexer)

ParseBlockStatement ==
  /\ Running("ParseBlockStatement")
  /\ ParseBlockStatementStep(Top)
  /\ UNCHANGED <<lastCall, atSave>>

\* a ParseStatement that answers a keyword it does not know with no statement
ParseStatementStepSkipsUnknown(f) ==
  CASE f.pc = "return" -> Finish(Value(lexer, ret.node))
    [] f.pc = "start" /\ lexer.CurrentToken.Val \in {kwConst, kwMut} ->
         Enter(Returned(lexer), At(f, "return"), "ParseValDeclareStatement")
    [] f.pc = "start" /\ lexer.CurrentToken.Val = kwIf ->
         Enter(Returned(lexer), At(f, "return"), "ParseIfStatement")
    [] f.pc = "start" /\ lexer.CurrentToken.Val = kwWhile ->
         Enter(Returned(lexer), At(f, "return"), "ParseWhileStatement")
    [] f.pc = "start" /\ lexer.CurrentToken.Val = kwDebugger ->
         Finish(ParseDebuggerStatement(lexer))
    [] f.pc = "start" /\ lexer.CurrentToken.Val = kwReturn ->
         Enter(Returned(lexer), At(f, "return"), "ParseReturnStatement")
    [] OTHER -> Finish(Value(lexer, Null))

ParseStatementStep(f) ==
  CASE f.pc = "return" -> Finish(Value(lexer, ret.node))
    [] f.pc = "start" /\ lexer.CurrentToken.Val \in {kwConst, kwMut} ->
         Enter(Returned(lexer), At(f, "return"), "ParseValDeclareStatement")
    [] f.pc = "start" /\ lexer.CurrentToken.Val = kwIf ->
         Enter(Returned(lexer), At(f, "return"), "ParseIfStatement")
    [] f.pc = "start" /\ lexer.CurrentToken.Val = kwWhile ->
         Enter(Returned(lexer), At(f, "return"), "ParseWhileStatement")
    [] f.pc = "start" /\ lexer.CurrentToken.Val = kwDebugger ->
         Finish(ParseDebuggerStatement(lexer))
    [] f.pc = "start" /\ lexer.CurrentToken.Val = kwReturn ->
         Enter(Returned(lexer), At(f, "return"), "ParseReturnStatement")
    [] OTHER -> Raise(Returned(lexer), Error("unknown statement val"))

ParseStatement ==
  /\ Running("ParseStatement")
  /\ ParseStatementStep(Top)
  /\ UNCHANGED <<lastCall, atSave>>

\* binary.Col = nonRecursive.Col, without binary.Left = nonRecursive
BackPatchColOnly(binary, nonRecursive) == [binary EXCEPT !.Col = nonRecursive.Col]

\* binary.Left = nonRecursive; binary.Col = nonRecursive.Col
BackPatch(binary, nonRecursive) ==
  [binary EXCEPT !.Left = nonRecursive, !.Col = nonRecursive.Col]

\* the end of ParseExpression after a binary tail was not taken
ConditionalCheck(f, ended) ==
  \E o \in {ended} :
    IF ~o.raised /\ o.lexer.CurrentToken.Type = "Marks" /\ o.lexer.CurrentToken.Val = <<"?">>
    THEN Enter(o, At(f, "conditional"), "ParseConditionalExpression")
    ELSE Finish(ValueThen(o, f.nonRecursive))

\* ParseExpression after this.lexer.SkipOf([tt.WhiteSpace], true), which ended as o
ExpressionTail(f, ended) ==
  \E o \in {ended} :
    IF ~o.raised /\ o.lexer.CurrentToken.Type = "BinaryOperator"
    THEN Enter(o, At(f, "binary"), "ParseBinaryExpression")
    ELSE ConditionalCheck(f, o)

ParseExpressionStep(f) ==
  CASE f.pc = "start" ->
         Enter(Returned(lexer), At(f, "nonRecursive"), "ParseNonRecursiveExpression")
    [] f.pc = "nonRecursive" ->
         ExpressionTail([f EXCEPT !.nonRecursive = ret.node], SkipOf(lexer, {"WhiteSpace"}, TRUE))
    [] f.pc = "binary" ->
         IF ret.node # Null
         THEN Finish(Value(lexer, BackPatch(ret.node, f.nonRecursive)))
         ELSE ConditionalCheck(f, Returned(lexer))
    [] f.pc = "conditional" ->
         IF ret.node # Null
         THEN Finish(Value(lexer, [ret.node EXCEPT !.Test = f.nonRecursive]))
         ELSE Finish(Value(lexer, f.nonRecursive))

ParseExpression ==
  /\ Running("ParseExpression")
  /\ ParseExpressionStep(Top)
  /\ UNCHANGED <<lastCall, atSave>>

\* the branch for an ID followed by a Dot without the BackTracking() call
NonRecursiveMemberNoRestore(f, ended) ==
  \E o \in {ended} :
    IF ~o.raised /\ o.lexer.CurrentToken.Type = "LeftParenthesis"
    THEN Enter(o, At(f, "return"), "ParseCallExp")
    ELSE Finish(o)

\* the branch for an ID followed by a Dot, after ParseMemberExp, which ended as o
NonRecursiveMember(f, ended) ==
  \E o \in {ended} :
    IF ~o.raised /\ o.lexer.CurrentToken.Type = "LeftParenthesis"
    THEN Enter(Returned(BackTracking(o.lexer)), At(f, "return"), "ParseCallExp")
    ELSE Finish(o)

\* the branch for an ID followed by white space without the second
\* BackTracking() call
NonRecursiveAssignNoRestore(f, ended) ==
  \E o \in {ended} :
    IF o.raised
    THEN Finish(o)
    ELSE IF o.lexer.CurrentToken.Type = "AssignOperator"
         THEN Enter(Returned(BackTracking(o.lexer)), At(f, "return"), "ParseAssignExpression")
         ELSE Finish(ParseIdentifierExpression(o.lexer))

\* the branch for an ID followed by white space, after SkipOf, which ended as o
NonRecursiveAssign(f, ended) ==
  \E o \in {ended} :
    IF o.raised
    THEN Finish(o)
    ELSE IF o.lexer.CurrentToken.Type = "AssignOperator"
         THEN Enter(Returned(BackTracking(o.lexer)), At(f, "return"), "ParseAssignExpression")
         ELSE Finish(ParseIdentifierExpression(BackTracking(o.lexer)))

\* ParseNonRecursiveExpression after Peek, which ended as p; type is the kind
\* of the current token
NonRecursiveBranch(f, type, ended) ==
  \E p \in {ended} :
    CASE p.raised -> Finish(p)
      [] ~p.raised /\ type \in LiteralTypes -> Finish(ParseLiteralExpression(p.lexer))
      [] ~p.raised /\ type = "UnaryOperator" -> Enter(p, At(f, "return"), "ParseUnaryExpression")
      [] ~p.raised /\ type = "ID" /\ p.token.Type = "Dot" ->
           NonRecursiveMember(f, ParseMemberExp(Save(p.lexer)))
      [] ~p.raised /\ type = "ID" /\ p.token.Type = "LeftParenthesis" ->
           Enter(p, At(f, "return"), "ParseCallExp")
      [] ~p.raised /\ type = "ID" /\ p.token.Type = "WhiteSpace" ->
           NonRecursiveAssign(f, SkipOf(Save(p.lexer), {"WhiteSpace"}, FALSE))
      [] ~p.raised /\ type = "ID"
           /\ p.token.Type \notin {"Dot", "LeftParenthesis", "WhiteSpace"} ->
           Finish(ParseIdentifierExpression(p.lexer))
      [] OTHER -> Raise(p, Error("unknown expression token"))

ParseNonRecursiveExpressionStep(f) ==
  IF f.pc = "start"
  THEN NonRecursiveBranch(f, lexer.CurrentToken.Type, Peek(lexer))
  ELSE Finish(Value(lexer, ret.node))

ParseNonRecursiveExpression ==
  /\ Running("ParseNonRecursiveExpression")
  /\ ParseNonRecursiveExpressionStep(Top)
  /\ UNCHANGED <<lastCall, atSave>>

ParseBinaryExpressionStep(f) ==
  CASE f.pc = "start" ->
         IF f.operator.Type # "BinaryOperator"
         THEN Finish(Value(lexer, Null))
         ELSE Enter(SkipOf(lexer, {"WhiteSpace"}, FALSE), At(f, "right"), "ParseExpression")
    [] f.pc = "right" ->
         Enter(Returned(lexer), [f EXCEPT !.pc = "nest", !.right = ret.node],
               "ParseBinaryExpression")
    [] f.pc = "nest" ->
         IF ret.node # Null
         THEN Finish(Value(lexer, BinaryExpression(ret.node, f.right, f.operator.Val,
                                                   ret.node.Line, ret.node.Col)))
         ELSE Finish(Value(lexer, BinaryExpression(Null, f.right, f.operator.Val,
                                                   f.right.Line, f.right.Col)))

ParseBinaryExpression ==
  /\ Running("ParseBinaryExpression")
  /\ ParseBinaryExpressionStep(Top)
  /\ UNCHANGED <<lastCall, atSave>>

\* ParseValDeclareStatement after SkipOf([tt.WhiteSpace]), which ended as o
ValDeclareId(f, ended) ==
  \E o \in {ended} :
    IF o.raised \/ o.lexer.CurrentToken.Type = "ID"
    THEN EnterSkipTo(o, [f EXCEPT !.pc = "assign", !.id = IdentifierOf(o.lexer.CurrentToken)],
                     {"AssignOperator"})
    ELSE Raise(o, UnexpectedTokenError("identifier", o.lexer.CurrentToken.Val))

ParseValDeclareStatementStep(f) ==
  CASE f.pc = "start" -> ValDeclareId(f, SkipOf(lexer, {"WhiteSpace"}, FALSE))
    [] f.pc = "assign" ->
         Enter(SkipOf(lexer, {"WhiteSpace"}, FALSE), At(f, "init"), "ParseExpression")
    [] f.pc = "init" -> Finish(Value(lexer, VarDeclare(f.kind, f.id, ret.node, 1, 0)))

ParseValDeclareStatement ==
  /\ Running("ParseValDeclareStatement")
  /\ ParseValDeclareStatementStep(Top)
  /\ UNCHANGED <<lastCall, atSave>>

\* ParseIfStatement after Skip() and SkipOf([tt.WhiteSpace]), which ended as o
IfTest(f, ended) ==
  \E o \in {ended} :
    IF o.raised \/ o.lexer.CurrentToken.Type = "LeftParenthesis"
    THEN Enter(SkipThen(o, 1), At(f, "test"), "ParseExpression")
    ELSE Raise(o, UnexpectedTokenError("(", o.lexer.CurrentToken.Val))

\* the else part without the BackTracking() call before the throw
IfElseNoRestore(f, ended) ==
  \E o \in {ended} :
    CASE o.raised -> Finish(o)
      [] ~o.raised /\ o.lexer.CurrentToken.Type = "Keywords"
           /\ o.lexer.CurrentToken.Val = kwIf ->
           Enter(o, At(f, "alternate"), "ParseIfStatement")
      [] ~o.raised /\ o.lexer.CurrentToken.Type = "LeftBracket" ->
           Enter(o, At(f, "alternate"), "ParseBlockStatement")
      [] OTHER -> Raise(o, Error("expect If / BlockStatement after else"))

\* the else part, after Save() and SkipOf([tt.WhiteSpace]), which ended as o
IfElse(f, ended) ==
  \E o \in {ended} :
    CASE o.raised -> Finish(o)
      [] ~o.raised /\ o.lexer.CurrentToken.Type = "Keywords"
           /\ o.lexer.CurrentToken.Val = kwIf ->
           Enter(o, At(f, "alternate"), "ParseIfStatement")
      [] ~o.raised /\ o.lexer.CurrentToken.Type = "LeftBracket" ->
           Enter(o, At(f, "alternate"), "ParseBlockStatement")
      [] OTHER -> Raise(Returned(BackTracking(o.lexer)),
                        Error("expect If / BlockStatement after else"))

ParseIfStatementStep(f) ==
  CASE f.pc = "start" -> IfTest(f, SkipOfThen(Skip(lexer, 1), {"WhiteSpace"}, FALSE))
    [] f.pc = "test" ->
         EnterSkipTo(Returned(lexer), [f EXCEPT !.pc = "bracket", !.test = ret.node],
                     {"LeftBracket"})
    [] f.pc = "bracket" -> Enter(Returned(lexer), At(f, "consequent"), "ParseBlockStatement")
    [] f.pc = "consequent" ->
         EnterSkipTo(Returned(lexer), [f EXCEPT !.pc = "keyword", !.consequent = ret.node],
                     {"Keywords"})
    [] f.pc = "keyword" ->
         IF lexer.CurrentToken.Val = kwElse
         THEN IfElse(f, SkipOf(Save(lexer), {"WhiteSpace"}, FALSE))
         ELSE Finish(Value(lexer, IfStatement(f.test.Line, f.test.Col, f.test,
                                              f.consequent, Null)))
    [] f.pc = "alternate" ->
         Finish(Value(lexer, IfStatement(f.test.Line, f.test.Col, f.test,
                                         f.consequent, ret.node)))

ParseIfStatement ==
  /\ Running("ParseIfStatement")
  /\ ParseIfStatementStep(Top)
  /\ UNCHANGED <<lastCall, atSave>>

ParseWhileStatementStep(f) ==
  CASE f.pc = "start" -> EnterSkipTo(Returned(lexer), At(f, "paren"), {"LeftParenthesis"})
    [] f.pc = "paren" -> Enter(Skip(lexer, 1), At(f, "test"), "ParseExpression")
    [] f.pc = "test" ->
         EnterSkipTo(Returned(lexer), [f EXCEPT !.pc = "bracket", !.test = ret.node],
                     {"LeftBracket"})
    [] f.pc = "bracket" -> Enter(Returned(lexer), At(f, "body"), "ParseBlockStatement")
    [] f.pc = "body" ->
         Finish(Value(lexer, WhileStatement(f.test.Line, f.test.Col, f.test, ret.node)))

ParseWhileStatement ==
  /\ Running("ParseWhileStatement")
  /\ ParseWhileStatementStep(Top)
  /\ UNCHANGED <<lastCall, atSave>>

ParseReturnStatementStep(f) ==
  IF f.pc = "start"
  THEN Enter(SkipOf(lexer, {"WhiteSpace"}, FALSE), At(f, "argument"), "ParseExpression")
  ELSE Finish(Value(lexer, ReturnStatement(ret.node, lexer.CurrentToken.Line,
                                           lexer.CurrentToken.Col)))

ParseReturnStatement ==
  /\ Running("ParseReturnStatement")
  /\ ParseReturnStatementStep(Top)
  /\ UNCHANGED <<lastCall, atSave>>

\* ParseAssignExpression after SkipOf([tt.WhiteSpace]), which ended as o: the
\* current token is the operator
AssignOperatorToken(f, ended) ==
  \E o \in {ended} :
    Enter(SkipOfThen(o, {"AssignOperator", "WhiteSpace"}, TRUE),
          [f EXCEPT !.pc = "init", !.operator = o.lexer.CurrentToken],
          "ParseExpression")

\* every node ParseExpression returns is an instance of Expression
ParseAssignExpressionStep(f) ==
  CASE f.pc = "start" -> AssignOperatorToken(f, SkipOf(lexer, {"WhiteSpace"}, FALSE))
    [] f.pc = "init" /\ f.operator.Type # "AssignOperator" ->
         Raise(Returned(lexer), UnexpectedTokenError("assign operator", f.operator.Val))
    [] f.pc = "init" /\ f.operator.Type = "AssignOperator" /\ f.id.Type = "ID" ->
         Finish(Value(lexer, AssignExpression(IdentifierOf(f.id), ret.node, f.operator.Val,
                                              f.id.Line, f.id.Col)))
    [] OTHER -> Raise(Returned(lexer), Error("unexpected id or init node"))

ParseAssignExpression ==
  /\ Running("ParseAssignExpression")
  /\ ParseAssignExpressionStep(Top)
  /\ UNCHANGED <<lastCall, atSave>>

\* id = this.ParseMemberExp(), which ended as o
CallExpMember(f, ended) ==
  \E o \in {ended} :
    IF o.raised THEN Finish(o) ELSE LoopGuard([f EXCEPT !.id = o.value], o.lexer)

\* the three branches of the loop of ParseCallExp; type is the kind of the
\* current token, one an expression starts with, and p is how Peek() ended
CallExpBranch(f, type, ended) ==
  \E p \in {ended} :
    CASE p.raised -> Finish(p)
      [] ~p.raised /\ type = "ID" /\ p.token.Type = "LeftParenthesis" ->
           LoopGuard([f EXCEPT !.id = IdentifierOf(p.lexer.CurrentToken)], p.lexer)
      [] ~p.raised /\ type = "ID" /\ p.token.Type = "Dot" ->
           CallExpMember(f, ParseMemberExp(p.lexer))
      [] ~p.raised /\ p.token.Type \in {"Comma", "RightParenthesis"} ->
           Enter(p, At(f, "argument"), "ParseExpression")
      [] OTHER -> LoopGuard(f, p.lexer)

\* after the loop of ParseCallExp
CallExpEnd(f) ==
  IF f.id = Null
  THEN Raise(Returned(lexer), Error("unknown function name"))
  ELSE Finish(ValueThen(Skip(lexer, 1), CallExpression(f.id, f.args, f.line, f.col)))

ParseCallExpStep(f) ==
  CASE f.pc = "loop" /\ lexer.CurrentToken.Type = "RightParenthesis" -> CallExpEnd(f)
    [] f.pc = "loop" /\ lexer.CurrentToken.Type \in ExpressionStart ->
         CallExpBranch(f, lexer.CurrentToken.Type, Peek(lexer))
    [] f.pc = "loop"
         /\ lexer.CurrentToken.Type \notin ExpressionStart \cup {"RightParenthesis"} ->
         LoopGuard(f, lexer)
    [] f.pc = "argument" -> LoopGuard([f EXCEPT !.args = Append(@, ret.node)], lexer)

ParseCallExp ==
  /\ Running("ParseCallExp")
  /\ ParseCallExpStep(Top)
  /\ UNCHANGED <<lastCall, atSave>>

-----------------------------------------------------------------------------
(* GengarCompiler: new GengarParser(new GengarLexer(source), file).Parse() *)
(* on a program of the grammar, or on a text that stops anywhere in one    *)

\*   main() { }
EmptyMain ==
  <<"m", "a", "i", "n", "(", ")", " ", "{", " ", "}">>

\*   main() {
\*    const msg: string = "hi";
\*    print(msg);
\*   }
\*
HelloMain ==
  <<"m", "a", "i", "n", "(", ")", " ", "{", "\n", " ", "c", "o", "n", "s", "t", " ", "m",
    "s", "g", ":", " ", "s", "t", "r", "i", "n", "g", " ", "=", " ", "\"", "h", "i", "\"",
    ";", "\n", " ", "p", "r", "i", "n", "t", "(", "m", "s", "g", ")", ";", "\n", "}", "\n">>

\*   fn add(a, b) { return a + b; }
\*   main() { mut x: number = add(1, 2); while (x) { x -= 1; } debugger; }
FnAndLoop ==
  <<"f", "n", " ", "a", "d", "d", "(", "a", ",", " ", "b", ")", " ", "{", " ", "r", "e",
    "t", "u", "r", "n", " ", "a", " ", "+", " ", "b", ";", " ", "}", "\n", "m", "a", "i",
    "n", "(", ")", " ", "{", " ", "m", "u", "t", " ", "x", ":", " ", "n", "u", "m", "b",
    "e", "r", " ", "=", " ", "a", "d", "d", "(", "1", ",", " ", "2", ")", ";", " ", "w",
    "h", "i", "l", "e", " ", "(", "x", ")", " ", "{", " ", "x", " ", "-", "=", " ", "1",
    ";", " ", "}", " ", "d", "e", "b", "u", "g", "g", "e", "r", ";", " ", "}">>

\*   main() { if (a) { } else if (b) { } else { } }
IfElseChain ==
  <<"m", "a", "i", "n", "(", ")", " ", "{", " ", "i", "f", " ", "(", "a", ")", " ", "{",
    " ", "}", " ", "e", "l", "s", "e", " ", "i", "f", " ", "(", "b", ")", " ", "{", " ",
    "}", " ", "e", "l", "s", "e", " ", "{", " ", "}", " ", "}">>

\*   main() { foo.bar(1); s = a.b; }
Members ==
  <<"m", "a", "i", "n", "(", ")", " ", "{", " ", "f", "o", "o", ".", "b", "a", "r", "(",
    "1", ")", ";", " ", "s", " ", "=", " ", "a", ".", "b", ";", " ", "}">>

\*   main() { if (x) { } }
IfWithoutElse ==
  <<"m", "a", "i", "n", "(", ")", " ", "{", " ", "i", "f", " ", "(", "x", ")", " ", "{",
    " ", "}", " ", "}">>

\*   main() { if(x) { } else { } }
IfNoSpace ==
  <<"m", "a", "i", "n", "(", ")", " ", "{", " ", "i", "f", "(", "x", ")", " ", "{", " ",
    "}", " ", "e", "l", "s", "e", " ", "{", " ", "}", " ", "}">>

\* programs the grammar derives, written with tokens the lexer accepts
WellFormedSources ==
  {EmptyMain, HelloMain, FnAndLoop, IfElseChain, Members, IfWithoutElse, IfNoSpace}

\*   main() { x = a ? b : c; }
Conditional ==
  <<"m", "a", "i", "n", "(", ")", " ", "{", " ", "x", " ", "=", " ", "a", " ", "?", " ",
    "b", " ", ":", " ", "c", ";", " ", "}">>

\*   main() { x = a + b * 2; y = f(1) - g.h; }
BinaryChain ==
  <<"m", "a", "i", "n", "(", ")", " ", "{", " ", "x", " ", "=", " ", "a", " ", "+", " ",
    "b", " ", "*", " ", "2", ";", " ", "y", " ", "=", " ", "f", "(", "1", ")", " ", "-",
    " ", "g", ".", "h", ";", " ", "}">>

\*   main() { f(a, 1); }
CallTwoArgs ==
  <<"m", "a", "i", "n", "(", ")", " ", "{", " ", "f", "(", "a", ",", " ", "1", ")", ";",
    " ", "}">>

\*   main() { f(a + b); }
CallBinaryArg ==
  <<"m", "a", "i", "n", "(", ")", " ", "{", " ", "f", "(", "a", " ", "+", " ", "b", ")",
    ";", " ", "}">>

\*   main() { f(g(1)); }
CallNestedArg ==
  <<"m", "a", "i", "n", "(", ")", " ", "{", " ", "f", "(", "g", "(", "1", ")", ")", ";",
    " ", "}">>

\*   main() { f(a.b); }
CallMemberArg ==
  <<"m", "a", "i", "n", "(", ")", " ", "{", " ", "f", "(", "a", ".", "b", ")", ";", " ", "}">>

\* programs of the grammar with expressions in them: a conditional, binary
\* operators in a row, calls with arguments of every kind
ExpressionSources ==
  {Conditional, BinaryChain, CallTwoArgs, CallBinaryArg, CallNestedArg, CallMemberArg}

\*   main() { x=1; }
AssignNoSpace ==
  <<"m", "a", "i", "n", "(", ")", " ", "{", " ", "x", "=", "1", ";", " ", "}">>

\*   main() { if (x) { return 1; } else if (y) { return 2; } else { return 3; } }
IfReturns ==
  <<"m", "a", "i", "n", "(", ")", " ", "{", " ", "i", "f", " ", "(", "x", ")", " ", "{",
    " ", "r", "e", "t", "u", "r", "n", " ", "1", ";", " ", "}", " ", "e", "l", "s", "e",
    " ", "i", "f", " ", "(", "y", ")", " ", "{", " ", "r", "e", "t", "u", "r", "n", " ",
    "2", ";", " ", "}", " ", "e", "l", "s", "e", " ", "{", " ", "r", "e", "t", "u", "r",
    "n", " ", "3", ";", " ", "}", " ", "}">>

\*   fn f() { }fn g() { }main() { }fn h() { }
TopLevel ==
  <<"f", "n", " ", "f", "(", ")", " ", "{", " ", "}", "f", "n", " ", "g", "(", ")", " ",
    "{", " ", "}", "m", "a", "i", "n", "(", ")", " ", "{", " ", "}", "f", "n", " ", "h",
    "(", ")", " ", "{", " ", "}">>

\*   main() { a.b.c(x); }
MemberCall ==
  <<"m", "a", "i", "n", "(", ")", " ", "{", " ", "a", ".", "b", ".", "c", "(", "x", ")",
    ";", " ", "}">>

\*   main() { if (a) { } else x }
ElseWithoutBlock ==
  <<"m", "a", "i", "n", "(", ")", " ", "{", " ", "i", "f", " ", "(", "a", ")", " ", "{",
    " ", "}", " ", "e", "l", "s", "e", " ", "x", " ", "}">>

\*   main() { else { } }
StrayElse ==
  <<"m", "a", "i", "n", "(", ")", " ", "{", " ", "e", "l", "s", "e", " ", "{", " ", "}",
    " ", "}">>

\*   main() { if (x) { } y = 1; return 2; }
IfThenStatements ==
  <<"m", "a", "i", "n", "(", ")", " ", "{", " ", "i", "f", " ", "(", "x", ")", " ", "{",
    " ", "}", " ", "y", " ", "=", " ", "1", ";", " ", "r", "e", "t", "u", "r", "n", " ",
    "2", ";", " ", "}">>

\* programs with statements and declarations in them: an assignment written
\* without white space, an if chain with return statements, declarations that
\* follow each other at once, a call of a member, an else with nothing to
\* run, an else with no if, statements after an if that has no else
StatementSources ==
  {AssignNoSpace, IfReturns, TopLevel, MemberCall, ElseWithoutBlock, StrayElse,
   IfThenStatements}

Prefixes(text) == {SubSeq(text, 1, n) : n \in 0..Len(text)}

\* the programs and every text that ends inside one
ParseSources ==
  UNION {Prefixes(text) : text \in WellFormedSources \cup ExpressionSources \cup StatementSources}

ParseInit ==
  /\ \E source \in ParseSources :
       /\ lexer = NewLexer(source)
       /\ stack = <<NewFrame("Parse", NewLexer(source))>>
  /\ status = "running"
  /\ ret = Nothing
  /\ lastCall = [op |-> "new", token |-> NoToken, raised |-> FALSE, error |-> NoError,
                 afterPeek |-> FALSE, peeked |-> NoToken, since |-> "n/a"]
  /\ atSave = [since |-> "never saved", state |-> Observable(lexer)]

ParseNext ==
  \/ Parse
  \/ ParseMain
  \/ ParseFn
  \/ ParseParams
  \/ ParseBlockStatement
  \/ ParseStatement
  \/ ParseExpression
  \/ ParseNonRecursiveExpression
  \/ ParseBinaryExpression
  \/ ParseValDeclareStatement
  \/ ParseIfStatement
  \/ ParseWhileStatement
  \/ ParseReturnStatement
  \/ ParseAssignExpression
  \/ ParseCallExp
  \/ SkipTo

ParseSpec == ParseInit /\ [][ParseNext]_vars

\* the compiler is one thread that runs Parse to its end: a call in progress
\* takes its next step
FairParseSpec == ParseSpec /\ WF_vars(ParseNext)

-----------------------------------------------------------------------------
(* Properties of the parser, checked under FairParseSpec *)

\* C1: on every input, a program of the grammar or a text that ends inside
\* one, Parse terminates: it returns a Program or it raises
ParseTerminates == <>(status # "running")

\* C2: on every program the grammar derives, written with tokens the lexer
\* accepts, Parse returns a Program: it neither raises nor goes on for ever
WellFormedParses == (lexer.originSource \in WellFormedSources) => <>(status = "returned")

-----------------------------------------------------------------------------
(* Properties of the tree Parse returns, checked under ParseSpec *)

\* C18: an atom followed by ? is parsed as a conditional expression: the
\* program with `a ? b : c` in expression position parses without error, and
\* the tree Parse returns for it holds a ConditionalExpression.
ConditionalParses ==
  lexer.originSource = Conditional =>
    /\ status # "raised"
    /\ status = "returned" =>
         \E nodes \in {Nodes(ret.node)} :
           \E i \in DOMAIN nodes : nodes[i].class = "ConditionalExpression"

\* C19: in the tree of a Parse that returned every BinaryExpression has a
\* Left that is not null, so Generate on the Program does not throw.
BinaryLeftsPatched ==
  status = "returned" =>
    /\ \A nodes \in {Nodes(ret.node)} :
         \A i \in DOMAIN nodes :
           nodes[i].class = "BinaryExpression" => nodes[i].Left # Null
    /\ ~Generate(ret.node).raised

\* a Parse that returned a tree with a BinaryExpression whose Right is a
\* BinaryExpression too: two nodes made with a null Left, both patched
BinaryLeftsPatchedWitness ==
  /\ status = "returned"
  /\ \E nodes \in {Nodes(ret.node)} :
       \E i \in DOMAIN nodes :
         /\ nodes[i].class = "BinaryExpression"
         /\ nodes[i].Left.class = "Identifier"
         /\ nodes[i].Right.class = "BinaryExpression"
         /\ nodes[i].Right.Left.class = "Identifier"

\* the calls of the corpus: the kinds of the arguments of f in the order of
\* the source text, and the text the call is to emit
CallCases ==
  {[source |-> CallTwoArgs, args |-> <<"Identifier", "NumberLiteral">>,
    code |-> <<"f", "(", "a", ",", "1", ")">>],
   [source |-> CallBinaryArg, args |-> <<"BinaryExpression">>,
    code |-> <<"f", "(", "a", " ", "+", " ", "b", ")">>],
   [source |-> CallNestedArg, args |-> <<"CallExpression">>,
    code |-> <<"f", "(", "g", "(", "1", ")", ")">>],
   [source |-> CallMemberArg, args |-> <<"MemberExpression">>,
    code |-> <<"f", "(", "a", ".", "b", ")">>]}

\* C20: a call f(e1, ..., en) is parsed to a CallExpression whose callee is f
\* and whose Args are e1 ... en in the order of the source text, whatever
\* kind of expression each is, and it emits f(e1,...,en).
CallArgsInOrder ==
  \A c \in CallCases :
    status = "returned" /\ lexer.originSource = c.source =>
      \E nodes \in {Nodes(ret.node)} :
        \E i \in DOMAIN nodes :
          /\ nodes[i].class = "CallExpression"
          /\ nodes[i].Id.class = "Identifier"
          /\ nodes[i].Id.Name = <<"f">>
          /\ Len(nodes[i].Args) = Len(c.args)
          /\ \A k \in DOMAIN c.args : nodes[i].Args[k].class = c.args[k]
          /\ Generate(nodes[i]) = Emitted(c.code)

\* part is somewhere in text
Contains(text, part) ==
  \E i \in 0..(Len(text) - Len(part)) : SubSeq(text, i + 1, i + Len(part)) = part

\* the line of the character at index i of a text, the first line being 1,
\* and its column, the first column of a line being 0
LineOf(text, i) == 1 + Cardinality({k \in 1..(i - 1) : text[k] = "\n"})

ColOf(text, i) == Cardinality({k \in 1..(i - 1) : \A j \in k..(i - 1) : text[j] # "\n"})

\* word is written in text from column col of line line on
StartsAt(text, line, col, word) ==
  \E i \in DOMAIN text :
    /\ LineOf(text, i) = line
    /\ ColOf(text, i) = col
    /\ StartsWith(Drop(text, i - 1), word)

\* the assignments of the corpus, with and without white space before the
\* operator, and the text each is to emit
AssignCases ==
  {[source |-> AssignNoSpace, id |-> <<"x">>, operator |-> <<"=">>,
    code |-> <<"x", " ", "=", " ", "1">>],
   [source |-> FnAndLoop, id |-> <<"x">>, operator |-> <<"-", "=">>,
    code |-> <<"x", " ", "-", "=", " ", "1">>],
   [source |-> BinaryChain, id |-> <<"x">>, operator |-> <<"=">>,
    code |-> <<"x", " ", "=", " ", "a", " ", "+", " ", "b", " ", "*", " ", "2">>]}

\* C21: an assignment ID op Expression is parsed to an AssignExpression
\* whose Operator is the text of the operator token, with or without white
\* space between the identifier and the operator, and it emits id, the
\* operator between two spaces, init.
AssignParsedWithOrWithoutSpace ==
  \A c \in AssignCases :
    status = "returned" /\ lexer.originSource = c.source =>
      \E nodes \in {Nodes(ret.node)} :
        \E i \in DOMAIN nodes :
          /\ nodes[i].class = "AssignExpression"
          /\ nodes[i].Id.class = "Identifier"
          /\ nodes[i].Id.Name = c.id
          /\ nodes[i].Operator = c.operator
          /\ Generate(nodes[i]) = Emitted(c.code)

\* the programs of the corpus with an if, an else if and an else
ElseIfChains == {IfElseChain, IfReturns}

\* C22: for a chain if .. else if .. else, Parse returns an IfStatement whose
\* Alternate is an IfStatement whose Alternate is a BlockStatement, and the
\* text it emits has `else if(` in it: the if( of the alternate comes
\* straight after the `else ` of the outer statement.
ElseIfEmitted ==
  status = "returned" /\ lexer.originSource \in ElseIfChains =>
    \E nodes \in {Nodes(ret.node)} :
      \E i \in DOMAIN nodes :
        /\ nodes[i].class = "IfStatement"
        /\ nodes[i].Alternate.class = "IfStatement"
        /\ nodes[i].Alternate.Alternate.class = "BlockStatement"
        /\ Contains(Generate(nodes[i]).code,
                    <<"e", "l", "s", "e", " ", "i", "f", "(">>)

\* C23: a function of two parameters emits them in the order of the source
\* text with a comma between them: fn add(a, b) emits `function add(a,b) `
\* and then its body block.
ParamsCommaSeparated ==
  status = "returned" /\ lexer.originSource = FnAndLoop =>
    \E nodes \in {Nodes(ret.node)} :
      \E i \in DOMAIN nodes :
        /\ nodes[i].class = "FunctionDeclare"
        /\ Len(nodes[i].Params) = 2
        /\ nodes[i].Params[1].Name = <<"a">>
        /\ nodes[i].Params[2].Name = <<"b">>
        /\ Generate(nodes[i]) =
             Emitted(<<"f", "u", "n", "c", "t", "i", "o", "n", " ", "a", "d", "d", "(", "a", ",", "b", ")", " ">>
                     \o Generate(nodes[i].Body).code)

\* C24: every node of the tree Parse returns has the file path and the line
\* and column of the token its construct starts with: a VarDeclare those of
\* its const or mut, a ReturnStatement those of its return, a BlockStatement
\* those of its {.
NodeOrigins ==
  status = "returned" =>
    \A nodes \in {Nodes(ret.node)} :
      \A i \in DOMAIN nodes :
        /\ nodes[i].class # "null" => nodes[i].File = SourceFile
        /\ nodes[i].class = "VarDeclare" =>
             StartsAt(lexer.originSource, nodes[i].Line, nodes[i].Col, nodes[i].Kind)
        /\ nodes[i].class = "ReturnStatement" =>
             StartsAt(lexer.originSource, nodes[i].Line, nodes[i].Col, kwReturn)
        /\ nodes[i].class = "BlockStatement" =>
             StartsAt(lexer.originSource, nodes[i].Line, nodes[i].Col, <<"{">>)

\* C25: a.b.c(x) is parsed to a CallExpression whose callee is the
\* MemberExpression ((a.b).c) and whose Args are [x]: the member expression
\* is parsed, ( is found, the lexer goes back to where it was saved at a and
\* the call is parsed from there; the callee emits a.b.c.
MemberCallParsed ==
  lexer.originSource = MemberCall =>
    /\ status # "raised"
    /\ status = "returned" =>
         \E nodes \in {Nodes(ret.node)} :
           \E i \in DOMAIN nodes :
             /\ nodes[i].class = "CallExpression"
             /\ StartsAt(MemberCall, nodes[i].Line, nodes[i].Col, <<"a", ".">>)
             /\ nodes[i].Id.class = "MemberExpression"
             /\ nodes[i].Id.Property.Name = <<"c">>
             /\ nodes[i].Id.Object.class = "MemberExpression"
             /\ nodes[i].Id.Object.Property.Name = <<"b">>
             /\ nodes[i].Id.Object.Object.class = "Identifier"
             /\ nodes[i].Id.Object.Object.Name = <<"a">>
             /\ Len(nodes[i].Args) = 1
             /\ nodes[i].Args[1].class = "Identifier"
             /\ nodes[i].Args[1].Name = <<"x">>
             /\ Generate(nodes[i].Id) = Emitted(<<"a", ".", "b", ".", "c">>)
             /\ Generate(nodes[i]) = Emitted(<<"a", ".", "b", ".", "c", "(", "x", ")">>)

\* the member call of the corpus parsed to the end
MemberCallParsedWitness ==
  /\ status = "returned"
  /\ lexer.originSource = MemberCall
  /\ \E nodes \in {Nodes(ret.node)} :
       \E i \in DOMAIN nodes :
         nodes[i].class = "CallExpression" /\ nodes[i].Id.class = "MemberExpression"

\* the declarations of the corpus with a type annotation, and the text each
\* is to emit
VarDeclareCases ==
  {[source |-> HelloMain, kind |-> kwConst,
    code |-> <<"c", "o", "n", "s", "t", " ", "m", "s", "g", "=", "\"", "h", "i", "\"", ";">>],
   [source |-> FnAndLoop, kind |-> kwMut,
    code |-> <<"l", "e", "t", " ", "x", "=", "a", "d", "d", "(", "1", ",", "2", ")", ";">>]}

\* C26: a declaration emits let for mut and const for any other kind, then
\* the id, =, the init and ; and nothing of its type annotation: no
\* TypeAnotation node is in a tree Parse returns and no colon in the text of
\* a declaration whose init has none (const msg: string = "hi"; emits
\* const msg="hi";).
VarDeclareDropsType ==
  status = "returned" =>
    \A nodes \in {Nodes(ret.node)} :
      /\ \A i \in DOMAIN nodes :
           /\ nodes[i].class # "TypeAnotation"
           /\ nodes[i].class # "null" => nodes[i].Type # "TypeAnotation"
           /\ nodes[i].class = "VarDeclare" =>
                /\ ~Generate(nodes[i]).raised
                /\ Generate(nodes[i]).code =
                     (IF nodes[i].Kind = kwMut
                      THEN <<"l", "e", "t", " ">>
                      ELSE <<"c", "o", "n", "s", "t", " ">>)
                     \o nodes[i].Id.Name \o <<"=">> \o Generate(nodes[i].Init).code \o <<";">>
                /\ ~Contains(Generate(nodes[i]).code, <<":">>)
      /\ \A c \in VarDeclareCases :
           lexer.originSource = c.source =>
             \E i \in DOMAIN nodes :
               /\ nodes[i].class = "VarDeclare"
               /\ nodes[i].Kind = c.kind
               /\ Generate(nodes[i]) = Emitted(c.code)

\* both declarations of the corpus that have a type annotation, parsed: one
\* const, one mut
VarDeclareDropsTypeWitness ==
  /\ status = "returned"
  /\ lexer.originSource = FnAndLoop
  /\ \E nodes \in {Nodes(ret.node)} :
       \E i \in DOMAIN nodes :
         /\ nodes[i].class = "VarDeclare"
         /\ nodes[i].Kind = kwMut
         /\ Contains(FnAndLoop, <<":", " ", "n", "u", "m", "b", "e", "r">>)

\* the print function, then the function of an empty main and its call
EmptyMainCode ==
  <<"f", "u", "n", "c", "t", "i", "o", "n", " ", "p", "r", "i", "n", "t", "(", ".", ".",
    ".", "a", "r", "g", "s", ")", "{", "\n", " ", " ", "c", "o", "n", "s", "o", "l", "e",
    ".", "l", "o", "g", "(", ".", ".", ".", "a", "r", "g", "s", ")", ";", "\n", "}", "\n",
    ";", "(", "f", "u", "n", "c", "t", "i", "o", "n", "(", ")", "{", "\n", "\n", "}", ")",
    "(", ")", ";", "\n">>

\* C27: for main() { } Parse returns a Program with one MainDeclare whose
\* block is empty, and the code generated is the print function and then
\* ;(function(){ newline newline })(); newline, nothing more.
EmptyMainEmitted ==
  lexer.originSource = EmptyMain =>
    /\ status # "raised"
    /\ status = "returned" =>
         /\ ret.node.class = "Program"
         /\ Len(ret.node.Body) = 1
         /\ ret.node.Body[1].class = "MainDeclare"
         /\ ret.node.Body[1].Body.class = "BlockStatement"
         /\ ret.node.Body[1].Body.Body = <<>>
         /\ Generate(ret.node) = Emitted(EmptyMainCode)

\* the empty main parsed to the end
EmptyMainEmittedWitness ==
  /\ status = "returned"
  /\ lexer.originSource = EmptyMain
  /\ ret.node.class = "Program"
  /\ ~Generate(ret.node).raised

\* the declarations at the top level of programs of the corpus, in the order
\* of the source text; name is the name of a function, empty for main
TopLevelCases ==
  {[source |-> EmptyMain, body |-> <<[class |-> "MainDeclare", name |-> <<>>]>>],
   [source |-> FnAndLoop,
    body |-> <<[class |-> "FunctionDeclare", name |-> <<"a", "d", "d">>],
               [class |-> "MainDeclare", name |-> <<>>]>>],
   [source |-> TopLevel,
    body |-> <<[class |-> "FunctionDeclare", name |-> <<"f">>],
               [class |-> "FunctionDeclare", name |-> <<"g">>],
               [class |-> "MainDeclare", name |-> <<>>],
               [class |-> "FunctionDeclare", name |-> <<"h">>]>>]}

\* C28: the Body of the Program has one node for each declaration at the top
\* level, in the order of the source text, a MainDeclare for main and a
\* FunctionDeclare for fn, and nothing else; a declaration that starts right
\* after the } of the one before is not skipped.
TopLevelDispatch ==
  \A c \in TopLevelCases :
    lexer.originSource = c.source =>
      /\ status # "raised"
      /\ status = "returned" =>
           /\ ret.node.class = "Program"
           /\ Len(ret.node.Body) = Len(c.body)
           /\ \A k \in DOMAIN c.body :
                /\ ret.node.Body[k].class = c.body[k].class
                /\ c.body[k].class = "FunctionDeclare" =>
                     ret.node.Body[k].Id.Name = c.body[k].name

\* the program whose declarations follow each other with nothing between
\* them, parsed to the end with its four declarations
TopLevelDispatchWitness ==
  /\ status = "returned"
  /\ lexer.originSource = TopLevel
  /\ Contains(TopLevel, <<"}", "f", "n">>)
  /\ Contains(TopLevel, <<"}", "m", "a", "i", "n">>)
  /\ Len(ret.node.Body) = 4

\* the texts of the corpus that stop after an else with no if and no { after it
ElseWithNothingToRun ==
  {text \in Prefixes(ElseWithoutBlock) : Contains(text, kwElse)}

\* C29: when what follows an else, white space aside, is neither if nor {,
\* ParseIfStatement throws with the lexer back in the state Save() recorded
\* at the else token: the current token is the else, the text up to and with
\* it is consumed and nothing after it; no IfStatement is returned.
ElseRestoresAndRaises ==
  /\ lexer.originSource \in ElseWithNothingToRun => status # "returned"
  /\ status = "raised" /\ ret.thrown.error = "expect If / BlockStatement after else" =>
       /\ lexer.CurrentToken.Type = "Keywords"
       /\ lexer.CurrentToken.Val = kwElse
       /\ lexer.CurrentToken = lexer.savePoint.token
       /\ lexer.pos = lexer.savePoint.pos
       /\ lexer.line = lexer.savePoint.line
       /\ lexer.col = lexer.savePoint.col
       /\ lexer.source = lexer.savePoint.source
       /\ lexer.source = Drop(lexer.originSource, lexer.pos)
       /\ SubSeq(lexer.originSource, lexer.pos - 3, lexer.pos) = kwElse

\* the throw after an else followed by white space and an identifier: SkipOf
\* has consumed two tokens after the else before the lexer goes back
ElseRestoresAndRaisesWitness ==
  /\ status = "raised"
  /\ ret.thrown.error = "expect If / BlockStatement after else"
  /\ lexer.originSource = ElseWithoutBlock
  /\ lexer.CurrentToken.Val = kwElse

\* the keywords ParseStatement has a case for
StatementKeywords == {kwConst, kwMut, kwIf, kwWhile, kwReturn, kwDebugger}

\* C30: ParseStatement on a keyword that is none of const, mut, if, while,
\* return, debugger (an else no if has taken) throws the error unknown
\* statement; every call in progress ends with it and Parse returns no
\* Program.
UnknownStatementRaises ==
  [][/\ (Running("ParseStatement") /\ Top.pc = "start"
          /\ lexer.CurrentToken.Val \notin StatementKeywords) =>
          /\ status' = "raised"
          /\ stack' = <<>>
          /\ ret'.thrown.error = "unknown statement val"
     /\ status = "raised" => status' = "raised"
     /\ lexer.originSource = StrayElse => status' # "returned"]_vars

\* the throw of ParseStatement on the else of a block that has no if
UnknownStatementRaisesWitness ==
  /\ status = "raised"
  /\ ret.thrown.error = "unknown statement val"
  /\ lexer.originSource = StrayElse
  /\ lexer.CurrentToken.Type = "Keywords"
  /\ lexer.CurrentToken.Val = kwElse

\* C31: a debugger keyword in a block gives one DebuggerNode, emitted as a
\* newline and debugger; : ParseStatement on the keyword consumes no token,
\* and the guard of the loop of the block then takes exactly one token, the
\* one after the keyword.
DebuggerTakesOneToken ==
  [][/\ (Running("ParseStatement") /\ Top.pc = "start"
          /\ lexer.CurrentToken.Type = "Keywords"
          /\ lexer.CurrentToken.Val = kwDebugger) =>
          /\ lexer' = lexer
          /\ status' = "running"
          /\ ret'.node.class = "DebuggerNode"
          /\ Generate(ret'.node) = Emitted(<<"\n">> \o kwDebugger \o <<";">>)
     /\ (Running("ParseBlockStatement") /\ Top.pc = "statement"
          /\ ret.node.class = "DebuggerNode") =>
          \E r \in {GetToken(lexer)} :
            /\ lexer.CurrentToken.Val = kwDebugger
            /\ ~r.raised =>
                 /\ Observable(lexer') = Observable(r.lexer)
                 /\ lexer.source = lexer'.CurrentToken.Val \o lexer'.source
                 /\ stack'[Len(stack')].body = Append(Top.body, ret.node)
     /\ (status' = "returned" /\ lexer.originSource = FnAndLoop) =>
          \E nodes \in {Nodes(ret'.node)} :
            Cardinality({i \in DOMAIN nodes : nodes[i].class = "DebuggerNode"}) = 1]_vars

\* the block of main after its debugger statement: the node is in the body
\* and the current token is the ; after the keyword
DebuggerTakesOneTokenWitness ==
  /\ Running("ParseBlockStatement")
  /\ Top.pc = "loop"
  /\ Top.body # <<>>
  /\ Top.body[Len(Top.body)].class = "DebuggerNode"
  /\ lexer.CurrentToken.Type = "Semicolon"
  /\ SubSeq(lexer.originSource, lexer.pos - 8, lexer.pos) = kwDebugger \o <<";">>

\* C32: an if statement with no else part takes nothing of the block it is
\* in: the statements after the } of its consequent are parsed by the block,
\* whose body is the if statement and then those statements in the order of
\* the source text.
IfLeavesFollowingStatements ==
  status = "returned" /\ lexer.originSource = IfThenStatements =>
    \E body \in {ret.node.Body[1].Body.Body} :
      /\ Len(body) = 3
      /\ body[1].class = "IfStatement"
      /\ body[1].Alternate = Null
      /\ body[2].class = "ExpressionStatement"
      /\ body[2].Expression.class = "AssignExpression"
      /\ body[3].class = "ReturnStatement"

\* the if statements of the corpus with and without white space before the
\* parenthesis, and the identifier each tests
IfCases ==
  {[source |-> IfElseChain, test |-> <<"a">>],
   [source |-> IfThenStatements, test |-> <<"x">>],
   [source |-> IfNoSpace, test |-> <<"x">>]}

\* C33: if (x) and if(x) both parse to an IfStatement whose Test is x; the
\* UnexpectedTokenError that expects ( is for a first token after if, white
\* space aside, that is not (.
IfWithOrWithoutSpace ==
  \A c \in IfCases :
    lexer.originSource = c.source =>
      /\ status # "raised"
      /\ status = "returned" =>
           \E nodes \in {Nodes(ret.node)} :
             \E i \in DOMAIN nodes :
               /\ nodes[i].class = "IfStatement"
               /\ nodes[i].Test.class = "Identifier"
               /\ nodes[i].Test.Name = c.test

\* C34: binary expressions lean to the right and no operator binds tighter
\* than another: a + b * 2 is BinaryExpression(a, +, BinaryExpression(b, *,
\* 2)) and emits a + b * 2; the Left of a BinaryExpression is never a
\* BinaryExpression.
BinaryRightLeaning ==
  status = "returned" =>
    \A nodes \in {Nodes(ret.node)} :
      /\ \A i \in DOMAIN nodes :
           nodes[i].class = "BinaryExpression" =>
             /\ nodes[i].Left.class \notin {"BinaryExpression", "null"}
             /\ nodes[i].Right.class # "null"
      /\ lexer.originSource = BinaryChain =>
           \E i \in DOMAIN nodes :
             /\ nodes[i].class = "BinaryExpression"
             /\ nodes[i].Left.class = "Identifier"
             /\ nodes[i].Left.Name = <<"a">>
             /\ nodes[i].Operator = <<"+">>
             /\ nodes[i].Right.class = "BinaryExpression"
             /\ nodes[i].Right.Left.class = "Identifier"
             /\ nodes[i].Right.Left.Name = <<"b">>
             /\ nodes[i].Right.Operator = <<"*">>
             /\ nodes[i].Right.Right.class = "NumberLiteral"
             /\ nodes[i].Right.Right.Val = <<"2">>
             /\ Generate(nodes[i]) = Emitted(<<"a", " ", "+", " ", "b", " ", "*", " ", "2">>)

\* the program with a + b * 2 parsed to the end: a product to the right of
\* a sum
BinaryRightLeaningWitness ==
  /\ status = "returned"
  /\ lexer.originSource = BinaryChain
  /\ \E nodes \in {Nodes(ret.node)} :
       \E i \in DOMAIN nodes :
         /\ nodes[i].class = "BinaryExpression"
         /\ nodes[i].Operator = <<"+">>
         /\ nodes[i].Right.class = "BinaryExpression"
         /\ nodes[i].Right.Operator = <<"*">>

\* the remaining text starts with white space and what follows the white
\* space is the end of the text or a token that is no AssignOperator
SpaceThenNoAssign(text) ==
  \E ws \in {FirstMatch(text)} :
    /\ ws.Type = "WhiteSpace"
    /\ \/ ws.len = Len(text)
       \/ FirstMatch(Drop(text, ws.len)).Type \notin {"AssignOperator", "none"}

\* C35: ParseNonRecursiveExpression on an ID followed by white space that no
\* AssignOperator follows returns the Identifier of that ID and leaves the
\* lexer one token past the ID, on the white space token: what SkipOf
\* consumed to look ahead is given back by BackTracking.
LookAheadUndone ==
  [][(Running("ParseNonRecursiveExpression") /\ Top.pc = "start"
        /\ lexer.CurrentToken.Type = "ID" /\ SpaceThenNoAssign(lexer.source)) =>
       \E ws \in {FirstMatch(lexer.source)} :
         /\ status' = "running"
         /\ ret'.node = IdentifierOf(lexer.CurrentToken)
         /\ lexer'.CurrentToken.Type = "WhiteSpace"
         /\ lexer'.CurrentToken.Val = SubSeq(lexer.source, 1, ws.len)
         /\ lexer'.pos = lexer.pos + ws.len
         /\ lexer'.col = lexer.col + ws.len
         /\ lexer'.line = lexer.line
         /\ lexer'.source = Drop(lexer.source, ws.len)]_vars

\* after the a of `a + b`: the Identifier a is returned, the save point is
\* at a, the current token is the white space and the + is still to come
LookAheadUndoneWitness ==
  /\ status = "running"
  /\ lexer.originSource = BinaryChain
  /\ "node" \in DOMAIN ret
  /\ ret.node.class = "Identifier"
  /\ ret.node.Name = <<"a">>
  /\ lexer.savePoint.token.Val = <<"a">>
  /\ lexer.CurrentToken.Type = "WhiteSpace"
  /\ StartsWith(lexer.source, <<"+">>)

\* the BackTracking() calls of the step the parser is about to take from a
\* lexer L whose Save() call has just been made: saved is the lexer as Save()
\* left it, before the lexer the call is made on. ParseNonRecursiveExpression
\* after ParseMemberExp stopped at a parenthesis, ...
MemberCalls(L) ==
  UNION {{[saved |-> sv, before |-> o.lexer] :
            o \in {x \in {ParseMemberExp(sv)} :
                     ~x.raised /\ x.lexer.CurrentToken.Type = "LeftParenthesis"}} :
         sv \in {Save(L)}}

\* ... ParseNonRecursiveExpression after SkipOf([tt.WhiteSpace]), whatever
\* token it stopped at, ...
AssignCalls(L) ==
  UNION {{[saved |-> sv, before |-> o.lexer] :
            o \in {x \in {SkipOf(sv, {"WhiteSpace"}, FALSE)} : ~x.raised}} :
         sv \in {Save(L)}}

\* ... and ParseIfStatement after an else that neither if nor { follows
ElseCalls(L) ==
  UNION {{[saved |-> sv, before |-> o.lexer] :
            o \in {x \in {SkipOf(sv, {"WhiteSpace"}, FALSE)} :
                     /\ ~x.raised
                     /\ x.lexer.CurrentToken.Type # "LeftBracket"
                     /\ ~(x.lexer.CurrentToken.Type = "Keywords"
                          /\ x.lexer.CurrentToken.Val = kwIf)}} :
         sv \in {Save(L)}}

BackTrackingCalls ==
  CASE Running("ParseNonRecursiveExpression") /\ Top.pc = "start"
         /\ lexer.CurrentToken.Type = "ID" ->
         UNION {IF p.raised THEN {}
                ELSE IF p.token.Type = "Dot" THEN MemberCalls(p.lexer)
                ELSE IF p.token.Type = "WhiteSpace" THEN AssignCalls(p.lexer)
                ELSE {} :
                  p \in {Peek(lexer)}}
    [] Running("ParseIfStatement") /\ Top.pc = "keyword"
         /\ lexer.CurrentToken.Val = kwElse -> ElseCalls(lexer)
    [] OTHER -> {}

\* C36: every BackTracking() call of the parser takes the lexer back by one
\* token at most: between the position it restores and the position the
\* lexer had right before the call there is no more than one token.
BackTrackingOneToken ==
  \A c \in BackTrackingCalls :
    \E restored \in {BackTracking(c.before)} :
      c.before.pos - restored.pos <= FirstMatch(restored.source).len

\* C38: between a Save() and the BackTracking() that follows it in the same
\* function of the parser no other Save() is made: the save point the call
\* restores is the one its own Save() recorded, and the lexer is back in the
\* state it had at that Save().
OwnSavePointRestored ==
  \A c \in BackTrackingCalls :
    /\ c.before.savePoint = c.saved.savePoint
    /\ Observable(BackTracking(c.before)) = Observable(c.saved)

\* a BackTracking() after ParseMemberExp has gone over a dotted name of
\* three parts, five tokens after the Save()
OwnSavePointRestoredWitness ==
  \E c \in BackTrackingCalls :
    /\ lexer.originSource = MemberCall
    /\ c.before.CurrentToken.Type = "LeftParenthesis"
    /\ c.saved.CurrentToken.Val = <<"a">>
    /\ c.before.pos = c.saved.pos + 5

-----------------------------------------------------------------------------
(* Properties of the lexer, checked under Spec *)

SameToken(t1, t2) ==
  t1.Type = t2.Type /\ t1.Val = t2.Val /\ t1.Line = t2.Line /\ t1.Col = t2.Col

Newlines(text) == Cardinality({i \in DOMAIN text : text[i] = "\n"})

\* C3: SkipTo stops at end of input: it never goes round its loop with an
\* EOF token, so no EOF token is ever pushed on skippedTokens.
SkipToStopsAtEOF ==
  \A i \in DOMAIN stack :
    stack[i].fn = "SkipTo" =>
      \A k \in DOMAIN stack[i].skippedTokens : stack[i].skippedTokens[k].Type # "EOF"

\* C4: Save(), then GetToken, Peek and Skip calls only, then BackTracking()
\* leaves pos, line, col, the remaining source and the current token as they
\* were when Save was called.
SaveRestoreRoundTrip ==
  lastCall.op = "BackTracking" /\ lastCall.since \in {"no call", "GetToken, Peek, Skip"}
    => Observable(lexer) = atSave.state

\* a BackTracking that undid calls which had moved the lexer to the end of a
\* source, back to a state with a current token and input left
SaveRestoreRoundTripWitness ==
  /\ lastCall.op = "BackTracking"
  /\ lastCall.since = "GetToken, Peek, Skip"
  /\ lexer.source # <<>>
  /\ lexer.CurrentToken.Type \notin {"undefined", "EOF"}
  /\ lexer.pos > 0

\* C5: Peek changes no field of the lexer: pos, line, col, the remaining
\* source, the current token and the savepoint are what they were before.
PeekChangesNothing == [][lastCall'.op = "Peek" => lexer' = lexer]_vars

\* a Peek that returned a token of the input, on a lexer with a current token
\* and a savepoint
PeekChangesNothingWitness ==
  /\ lastCall.op = "Peek"
  /\ ~lastCall.raised
  /\ lastCall.token.Type \notin {"undefined", "EOF"}
  /\ lexer.CurrentToken.Type \notin {"undefined", "EOF"}
  /\ lexer.savePoint.token.Type # "undefined"

\* C6: the token Peek returns and the token the GetToken right after it
\* returns have the same kind, value, line and col.
PeekThenGetToken ==
  lastCall.op = "GetToken" /\ lastCall.afterPeek
    => ~lastCall.raised /\ SameToken(lastCall.peeked, lastCall.token)

\* a GetToken after a Peek, both returning a token of the second line
PeekThenGetTokenWitness ==
  /\ lastCall.op = "GetToken"
  /\ lastCall.afterPeek
  /\ lastCall.token.Type \notin {"undefined", "EOF"}
  /\ lastCall.token.Line > 1

\* C7: BackTracking on a lexer that was never saved throws and leaves pos,
\* line, col, the remaining source and the current token as they were.
BackTrackingWithoutSaveRaises ==
  [][lastCall'.op = "BackTracking" /\ atSave.since = "never saved"
       => lastCall'.raised /\ Observable(lexer') = Observable(lexer)]_vars

\* C8: pos is the number of characters consumed since the origin.
PosCountsConsumed == lexer.pos + Len(lexer.source) = Len(lexer.originSource)

\* C9: across a GetToken call pos and line do not decrease, and after one
\* that took a token from the input col is 0 exactly when the token is a
\* CRLF token, and otherwise the previous col plus the matched length.
PositionMonotonic ==
  [][lastCall'.op = "GetToken" =>
       /\ lexer'.pos >= lexer.pos
       /\ lexer'.line >= lexer.line
       /\ (~lastCall'.raised /\ lexer.source # <<>> =>
             /\ (lexer'.col = 0) <=> (lastCall'.token.Type = "CRLF")
             /\ lastCall'.token.Type # "CRLF" =>
                  lexer'.col = lexer.col + Len(lastCall'.token.Val))]_vars

\* a GetToken that returned a CRLF token found at a column other than 0
PositionMonotonicWitness ==
  /\ lastCall.op = "GetToken"
  /\ lastCall.token.Type = "CRLF"
  /\ lastCall.token.Col > 0
  /\ lexer.col = 0

\* C10: a CRLF token adds to line the number of newline characters of its
\* text and sets col to 0; any other token leaves line as it was.
LineCountsNewlines ==
  [][lastCall'.op = "GetToken" /\ ~lastCall'.raised =>
       IF lastCall'.token.Type = "CRLF"
       THEN /\ lexer'.line = lexer.line + Newlines(lastCall'.token.Val)
            /\ lexer'.col = 0
       ELSE lexer'.line = lexer.line]_vars

\* C16: with no input left every GetToken call returns an EOF token whose
\* value is the empty text, leaves pos, line, col and the remaining source as
\* they were, and makes that token the current token.
EofIdempotent ==
  [][lastCall'.op = "GetToken" /\ lexer.source = <<>> =>
       /\ ~lastCall'.raised
       /\ lastCall'.token.Type = "EOF"
       /\ lastCall'.token.Val = <<>>
       /\ lexer'.pos = lexer.pos
       /\ lexer'.line = lexer.line
       /\ lexer'.col = lexer.col
       /\ lexer'.source = <<>>
       /\ lexer'.CurrentToken = lastCall'.token]_vars

\* a GetToken at the end of a text that was read, made while the EOF token of
\* an earlier call at this place was still the current token or the saved one
EofIdempotentWitness ==
  /\ lastCall.op = "GetToken"
  /\ lastCall.token.Type = "EOF"
  /\ lastCall.token.id[2] > 1
  /\ lexer.CurrentToken = lastCall.token
  /\ lexer.pos > 0

\* C17: when input is left and no pattern matches at its start, GetToken, and
\* Peek through it, throws an error that carries pos, line, col and the
\* remaining text, and leaves pos, line, col, the remaining source and the
\* current token as they were.
LexErrorLeavesLexer ==
  [][lastCall'.op \in {"GetToken", "Peek"}
       /\ lexer.source # <<>> /\ FirstMatch(lexer.source) = NoMatch =>
       /\ lastCall'.raised
       /\ lastCall'.error.pos = lexer.pos
       /\ lastCall'.error.line = lexer.line
       /\ lastCall'.error.col = lexer.col
       /\ lastCall'.error.source = lexer.source
       /\ Observable(lexer') = Observable(lexer)]_vars

\* a Peek that threw on the second line of a text, after a token was read
LexErrorLeavesLexerWitness ==
  /\ lastCall.op = "Peek"
  /\ lastCall.raised
  /\ lastCall.error.pos > 0
  /\ lastCall.error.line > 1
  /\ lexer.CurrentToken.Type # "undefined"

-----------------------------------------------------------------------------
(* Properties of the token table, checked under LexSpec *)

KeywordWords == {kwIf, kwElse, kwWhile, kwReturn, kwDebugger, kwConst, kwMut}

AssignOperatorValues == {<<"=">>, <<"+", "=">>, <<"-", "=">>, <<"*", "=">>, <<"/", "=">>}

\* the word a text starts with: its longest prefix of letters, digits and _
WordAt(text) == SubSeq(text, 1, RunLen(text, WordChar))

\* a colon, then spaces and tabs or none, then the name of a type
StartsWithTypeAssert(text) ==
  /\ text # <<>>
  /\ text[1] = ":"
  /\ \E n \in 1..Len(text) :
       /\ \A i \in 2..n : text[i] \in {" ", "\t"}
       /\ \E name \in {wString, wNumber, wBoolean} : StartsWith(Drop(text, n), name)

\* C11: a WhiteSpace token returned by GetToken is made of spaces and tabs
\* only: no newline and no carriage return is part of one.
WhiteSpaceHasNoNewline ==
  lastCall.op = "GetToken" /\ lastCall.token.Type = "WhiteSpace" =>
    \A i \in DOMAIN lastCall.token.Val : lastCall.token.Val[i] \in {" ", "\t"}

\* C12: when the input starts with a word that begins with a keyword and goes
\* on, GetToken returns one ID token for the whole word.
KeywordsWordBounded ==
  [][lastCall'.op = "GetToken"
       /\ (\E k \in KeywordWords :
             StartsWith(WordAt(lexer.source), k) /\ WordAt(lexer.source) # k) =>
       /\ ~lastCall'.raised
       /\ lastCall'.token.Type = "ID"
       /\ lastCall'.token.Val = WordAt(lexer.source)]_vars

\* C13: the value of an AssignOperator token is one of = += -= *= /=.
AssignOperatorIsOneOfFive ==
  lastCall.op = "GetToken" /\ lastCall.token.Type = "AssignOperator" =>
    lastCall.token.Val \in AssignOperatorValues

\* C14: GetToken takes the first pattern of its chain that matches: a text
\* that starts with a keyword gives a Keywords token and not an ID, one that
\* starts with = or with + - * / and = gives that AssignOperator token and not
\* a BinaryOperator, and a colon with a type name gives one TypeAssert token.
MatcherOrder ==
  [][lastCall'.op = "GetToken" /\ lexer.source # <<>> =>
       /\ (\E k \in KeywordWords : StartsWith(lexer.source, k)) =>
            /\ lastCall'.token.Type = "Keywords"
            /\ lastCall'.token.Val \in KeywordWords
       /\ (\E v \in AssignOperatorValues : StartsWith(lexer.source, v)) =>
            /\ lastCall'.token.Type = "AssignOperator"
            /\ StartsWith(lexer.source, lastCall'.token.Val)
            /\ lastCall'.token.Val \in AssignOperatorValues
       /\ StartsWithTypeAssert(lexer.source) =>
            /\ lastCall'.token.Type = "TypeAsset"
            /\ lastCall'.token.Val[1] = ":"
            /\ \E name \in {wString, wNumber, wBoolean} :
                 Drop(lastCall'.token.Val, Len(lastCall'.token.Val) - Len(name)) = name]_vars

\* a GetToken that returned the AssignOperator -= found after another token
MatcherOrderWitness ==
  /\ lastCall.op = "GetToken"
  /\ lastCall.token.Type = "AssignOperator"
  /\ lastCall.token.Val = <<"-", "=">>
  /\ lastCall.token.Col > 0

\* C15: a text that starts with ? or with a colon no type name follows gives
\* a Marks token, and one that starts with ! or ~ a UnaryOperator token:
\* GetToken does not throw on them.
MarksAndUnaryAreReturned ==
  [][lastCall'.op = "GetToken" /\ lexer.source # <<>> =>
       /\ (lexer.source[1] = "?" \/ (lexer.source[1] = ":" /\ MatchTypeAssert(lexer.source) = 0))
            => ~lastCall'.raised /\ lastCall'.token.Type = "Marks"
       /\ lexer.source[1] \in {"!", "~"}
            => ~lastCall'.raised /\ lastCall'.token.Type = "UnaryOperator"]_vars

\* C37: a token GetToken returns before the end of input has as Line 1 plus
\* the number of newline characters before its first character in the source
\* text, and as Col the distance of that character from the start of its
\* line.
TokenLineAndCol ==
  lastCall.op = "GetToken" /\ ~lastCall.raised /\ lastCall.token.Type # "EOF" =>
    \E first \in {lexer.pos - Len(lastCall.token.Val) + 1} :
      /\ lastCall.token.Line = LineOf(lexer.originSource, first)
      /\ lastCall.token.Col = ColOf(lexer.originSource, first)

\* C39: no character is lost in the tokens: every GetToken call that returns
\* a token before the end of input takes at least one character, the value
\* of the token is the start of the text that was left, what is left after
\* the call is the rest, and the values returned so far, one after the
\* other, are the source text up to pos.
TokensLossless ==
  [][(lastCall'.op = "GetToken" /\ ~lastCall'.raised /\ lastCall'.token.Type # "EOF") =>
       \E val \in {lastCall'.token.Val} :
         /\ Len(val) >= 1
         /\ lexer.source = val \o lexer'.source
         /\ lexer'.pos = lexer.pos + Len(val)
         /\ SubSeq(lexer.originSource, 1, lexer'.pos)
              = SubSeq(lexer.originSource, 1, lexer.pos) \o val
         /\ lexer'.source = Drop(lexer.originSource, lexer'.pos)]_vars

\* a text of two tokens read to its end, the second one white space or
\* newlines: nothing is left and pos is the length of the text
TokensLosslessWitness ==
  /\ lastCall.op = "GetToken"
  /\ ~lastCall.raised
  /\ lastCall.token.Type \in {"WhiteSpace", "CRLF"}
  /\ lexer.source = <<>>
  /\ lexer.pos = Len(lexer.originSource)
  /\ lexer.pos > Len(lastCall.token.Val)

====
